---- MODULE Spec2Model ----
(***************************************************************************)
(* Spray Window Analysis Engine of Agricog Assist (server/index.ts):       *)
(* analyzeSprayConditions (interval classifier, day grouping) and          *)
(* findSprayWindows (window merger, ranking).                              *)
(*                                                                         *)
(* Number representation (JavaScript doubles are modelled by scaled        *)
(* integers, the inputs having the decimals of their unit):                *)
(*   item.wind.speed   centimetres/second   (2.00 m/s  = 200)              *)
(*   item.pop          thousandths          (0.046     = 46)               *)
(*   item.main.temp    centidegrees Celsius (18.00 C   = 1800)             *)
(*   windMph           1e-5 mph             (speed * 2237)                 *)
(*   rainPercent       thirds of 1e-3 %     (pop * 100, see TimesHundred)  *)
(*   item.dt           seconds since the epoch, as in the source           *)
(* A number that is NaN, or a field that is missing (undefined), is the    *)
(* value NaN below; arithmetic on it gives NaN and every comparison with   *)
(* it is false.                                                            *)
(* The product pop * 100 of two doubles is rounded to a double, which may   *)
(* lie just below or just above the decimal product (0.145 * 100 is         *)
(* 14.499999999999998): rainPercent is 3 * (the decimal product in 1e-3 %)  *)
(* minus one, plus nothing, or plus one accordingly. The product            *)
(* speed * 2.237 is kept as the decimal product: below 500 m/s it is never  *)
(* a whole or a half number of mph, so that no comparison and no rounding   *)
(* of the code can tell the double from it.                                 *)
(***************************************************************************)
EXTENDS Integers, Sequences, FiniteSets, TLC

VARIABLES
  tz,             \* offset of the server's local time from UTC, seconds
  sprayType,      \* argument sprayType (req.query.type)
  forecast,       \* argument forecastData.list
  pc,             \* position in analyzeSprayConditions / findSprayWindows
  i,              \* index of the forecastData.list.forEach callback
  dayMap,         \* dayMap, in key insertion order
  timeline,       \* timeline
  d,              \* index of the timeline.forEach callback
  b,              \* index of the day.blocks.forEach callback
  currentWindow,  \* currentWindow of findSprayWindows
  windows,        \* windows of findSprayWindows
  openMembers,    \* history: positions <<d, b>> of currentWindow.blocks
  members,        \* history: positions of the blocks of each element of windows
  calls,          \* the locals of each of several invocations in progress
  ui,             \* state of Dashboard and SprayWindowOptimizer in the browser
  req             \* one GET /api/spray-analysis request in the server

vars == <<tz, sprayType, forecast, pc, i, dayMap, timeline, d, b,
          currentWindow, windows, openMembers, members, calls, ui, req>>

\* longest forecast drawn from the catalogue
MaxLen == 3
\* number of invocations in progress at once
MaxCalls == 2
\* number of /api/spray-analysis requests the browser issues
MaxRequests == 4
\* number of times the user selects a weather location
MaxSelects == 2

----------------------------------------------------------------------------
(* Numbers and strings *)

\* the value of a missing field or of arithmetic on one: no number of the
\* model is as small
NaN == -1000000000
IsNaN(x) == x = NaN

\* x < y, x <= y, x > y, x >= y on numbers either of which may be NaN
Lt(x, y) == ~IsNaN(x) /\ ~IsNaN(y) /\ x < y
Le(x, y) == ~IsNaN(x) /\ ~IsNaN(y) /\ x <= y
Gt(x, y) == ~IsNaN(x) /\ ~IsNaN(y) /\ x > y
Ge(x, y) == ~IsNaN(x) /\ ~IsNaN(y) /\ x >= y
\* x * k
Times(x, k) == IF IsNaN(x) THEN NaN ELSE x * k

\* c and D = 1000 * 2^v with c = k * 2^u and D <= c < 2 * D: the double
\* nearest to k / 1000 is m * 2^-(u + 52) / 2^v, m the integer nearest to
\* c * 2^52 / D
RECURSIVE Normalised(_, _)
Normalised(c, D) ==
  IF c < D THEN Normalised(2 * c, D)
  ELSE IF c >= 2 * D THEN Normalised(c, 2 * D)
  ELSE <<c, D>>

\* r * 2^n modulo `modulus`, eight doublings at a time
RECURSIVE DoubledMod(_, _, _)
DoubledMod(r, n, modulus) ==
  IF n = 0 THEN r
  ELSE IF n >= 8 THEN DoubledMod((256 * r) % modulus, n - 8, modulus)
  ELSE DoubledMod((2 * r) % modulus, n - 1, modulus)

\* round to nearest, ties to even: is a value with remainder r of `unit`
\* above a whole rounded down
RoundsDown(r, unit, wholeIsEven) ==
  2 * r < unit \/ (2 * r = unit /\ wholeIsEven)

\* the sign of (k / 1000 as a double) * 100, rounded to a double, minus the
\* decimal k / 10, for k > 0: the 53-bit mantissa m of k / 1000 is known by
\* its last eight bits and its distance a / D from c * 2^52 / D; 100 * m has
\* 59 or 60 bits and loses its last g = 6 or 7 in the second rounding
HundredfoldErrorOf(k) ==
  LET n == Normalised(k, 1000)
      c == n[1]
      D == n[2]
      R == DoubledMod(c % (256 * D), 52, 256 * D)
      r1 == R % D
      whole == R \div D
      down == RoundsDown(r1, D, whole % 2 = 0)
      a == IF down THEN 0 - r1 ELSE D - r1
      m == IF down THEN whole ELSE whole + 1
      G == IF 25 * c < 32 * D \/ (25 * c = 32 * D /\ a < 0) THEN 64 ELSE 128
      Q == (100 * m) % (2 * G)
      r2 == Q % G
      d2 == IF RoundsDown(r2, G, Q \div G = 0) THEN 0 - r2 ELSE G - r2
      e == 100 * a + d2 * D
  IN  IF e < 0 THEN -1 ELSE IF e > 0 THEN 1 ELSE 0

HundredfoldError(k) ==
  IF k = 0 THEN 0
  ELSE IF k < 0 THEN 0 - HundredfoldErrorOf(0 - k)
  ELSE HundredfoldErrorOf(k)

\* x * 100 for x in thousandths, in thirds of 1e-3: three times the decimal
\* product, one less or one more where the double lies below or above it
TimesHundred(x) ==
  IF IsNaN(x) THEN NaN ELSE 3 * (x * 100) + HundredfoldError(x)

Mph(n) == n * 100000
Pct(n) == n * 3000
Deg(n) == n * 100

\* Math.round on a value with `unit` units per whole: floor(x + 0.5)
MathRound(x, unit) == IF IsNaN(x) THEN NaN ELSE (2 * x + unit) \div (2 * unit)

Digit(n) ==
  CASE n = 0 -> "0" [] n = 1 -> "1" [] n = 2 -> "2" [] n = 3 -> "3"
    [] n = 4 -> "4" [] n = 5 -> "5" [] n = 6 -> "6" [] n = 7 -> "7"
    [] n = 8 -> "8" [] n = 9 -> "9"

RECURSIVE NumToString(_)
\* Number.prototype.toString for a non-negative integer
NumToString(n) ==
  IF n < 10 THEN Digit(n) ELSE NumToString(n \div 10) \o Digit(n % 10)

\* s.padStart(2, '0')
PadStart2(s) == IF Len(s) < 2 THEN "0" \o s ELSE s

RECURSIVE DashAt(_, _)
\* index of the first '-' of s at or after k (0 when there is none)
DashAt(s, k) ==
  IF k > Len(s) THEN 0
  ELSE IF SubSeq(s, k, k) = "-" THEN k ELSE DashAt(s, k + 1)

\* s.split('-')[0] and s.split('-')[1] for a string with one '-'
SplitDash0(s) == SubSeq(s, 1, DashAt(s, 1) - 1)
SplitDash1(s) == SubSeq(s, DashAt(s, 1) + 1, Len(s))

----------------------------------------------------------------------------
(* Date: local fields, locale strings, ISO date.                           *)
(* The calendar is that of January 1970 (epoch day 0 is Thursday 1 Jan):   *)
(* the timestamps of the model all fall in that month.                     *)

LocalSeconds(dt, off) == dt + off
\* dt.getHours()
GetHours(dt, off) == (LocalSeconds(dt, off) \div 3600) % 24
LocalDayNumber(dt, off) == LocalSeconds(dt, off) \div 86400
UtcDayNumber(dt) == dt \div 86400

WeekdayLong(n) ==
  CASE n % 7 = 0 -> "Thursday" [] n % 7 = 1 -> "Friday" [] n % 7 = 2 -> "Saturday"
    [] n % 7 = 3 -> "Sunday" [] n % 7 = 4 -> "Monday" [] n % 7 = 5 -> "Tuesday"
    [] n % 7 = 6 -> "Wednesday"

\* toLocaleDateString('en-US', { weekday: 'long' })
DayLabel(dt, off) == WeekdayLong(LocalDayNumber(dt, off))

\* toLocaleDateString('en-US', { weekday: 'short', month: 'short', day: 'numeric' })
DayKey(dt, off) ==
  SubSeq(WeekdayLong(LocalDayNumber(dt, off)), 1, 3) \o ", Jan "
    \o NumToString(LocalDayNumber(dt, off) + 1)

\* dt.toISOString().split('T')[0]
IsoDate(dt) == "1970-01-" \o PadStart2(NumToString(UtcDayNumber(dt) + 1))

\* `${hour.toString().padStart(2, '0')}:00`
TimeStr(hour) == PadStart2(NumToString(hour)) \o ":00"
\* `${timeStr}-${nextHour.toString().padStart(2, '0')}:00`
TimeRange(hour) == TimeStr(hour) \o "-" \o PadStart2(NumToString((hour + 3) % 24)) \o ":00"

----------------------------------------------------------------------------
(* Spray-type profiles *)

\* windLimits with the herbicide and insecticide rows exchanged
windLimitsExchanged ==
  [herbicide   |-> [perfect |-> 15, risky |-> 18],
   fungicide   |-> [perfect |-> 12, risky |-> 15],
   insecticide |-> [perfect |-> 10, risky |-> 15]]

windLimits ==
  [herbicide   |-> [perfect |-> 10, risky |-> 15],
   fungicide   |-> [perfect |-> 12, risky |-> 15],
   insecticide |-> [perfect |-> 15, risky |-> 18]]

\* property names every object literal inherits from Object.prototype;
\* all of them are truthy (functions, or the prototype object itself)
ObjectPrototypeKeys ==
  {"constructor", "__defineGetter__", "__defineSetter__", "hasOwnProperty",
   "__lookupGetter__", "__lookupSetter__", "isPrototypeOf",
   "propertyIsEnumerable", "toString", "valueOf", "__proto__",
   "toLocaleString"}

\* windLimits[sprayType] || windLimits.herbicide
LimitsFor(type) ==
  IF type \in DOMAIN windLimits THEN windLimits[type]
  ELSE IF type \in ObjectPrototypeKeys THEN [inherited |-> type]
  ELSE windLimits.herbicide

\* x <= limits.p and x > limits.p; a comparison with undefined is false
LeLimit(x, limits, p) == p \in DOMAIN limits /\ Le(x, Mph(limits[p]))
GtLimit(x, limits, p) == p \in DOMAIN limits /\ Gt(x, Mph(limits[p]))

----------------------------------------------------------------------------
(* Interval classifier: the body of forecastData.list.forEach *)

\* OrZero without the default: x
OrZeroOmitted(x) == x

\* x || 0: 0, NaN and undefined are falsy
OrZero(x) == IF x = 0 \/ IsNaN(x) THEN 0 ELSE x

\* const windMph = item.wind.speed * 2.237
WindMph(item) == Times(item.wind.speed, 2237)
\* RainPercent rounded before it is compared
RainPercentRounded(item) ==
  Times(MathRound(TimesHundred(OrZero(item.pop)), Pct(1)), Pct(1))

\* const rainPercent = (item.pop || 0) * 100
RainPercent(item) == TimesHundred(OrZero(item.pop))
\* const tempC = item.main.temp
TempC(item) == item.main.temp

\* IsNight with 8pm itself counted as day
IsNightAfter20(hour) == hour < 6 \/ hour > 20

\* hour < 6 || hour >= 20
IsNight(hour) == hour < 6 \/ hour >= 20

\* IsPerfect with the upper temperature bound exclusive
IsPerfectBelow25(windMph, rainPercent, tempC, limits) ==
  /\ Ge(windMph, Mph(2)) /\ LeLimit(windMph, limits, "perfect")
  /\ Lt(rainPercent, Pct(5))
  /\ Ge(tempC, Deg(5)) /\ Lt(tempC, Deg(25))

\* the condition of the PERFECT branch
IsPerfect(windMph, rainPercent, tempC, limits) ==
  /\ Ge(windMph, Mph(2)) /\ LeLimit(windMph, limits, "perfect")
  /\ Lt(rainPercent, Pct(5))
  /\ Ge(tempC, Deg(5)) /\ Le(tempC, Deg(25))

\* the condition of the RISKY branch
IsRisky(windMph, rainPercent, tempC, limits) ==
  \/ (GtLimit(windMph, limits, "perfect") /\ LeLimit(windMph, limits, "risky"))
  \/ (Ge(rainPercent, Pct(5)) /\ Le(rainPercent, Pct(20)))
  \/ (Ge(tempC, Deg(3)) /\ Lt(tempC, Deg(5)))
  \/ (Gt(tempC, Deg(25)) /\ Le(tempC, Deg(28)))

\* the if / else-if chain that assigns status
StatusOf(hour, windMph, rainPercent, tempC, limits) ==
  IF IsNight(hour) THEN "NIGHT"
  ELSE IF IsPerfect(windMph, rainPercent, tempC, limits) THEN "PERFECT"
  ELSE IF IsRisky(windMph, rainPercent, tempC, limits) THEN "RISKY"
  ELSE "DONT_SPRAY"

\* reason inside the RISKY branch
RiskyReason(windMph, rainPercent, limits) ==
  IF GtLimit(windMph, limits, "perfect") THEN "Wind approaching limit"
  ELSE IF Ge(rainPercent, Pct(5)) THEN "Light rain possible"
  ELSE "Temperature not ideal"

\* DontSprayReason with the rain test ahead of the wind test
DontSprayReasonRainFirst(windMph, rainPercent, tempC, limits) ==
  IF Gt(rainPercent, Pct(20))
    THEN "Rain forecast (" \o NumToString(MathRound(rainPercent, Pct(1))) \o "%)"
  ELSE IF GtLimit(windMph, limits, "risky")
    THEN "High wind (" \o NumToString(MathRound(windMph, Mph(1))) \o "mph)"
  ELSE IF Lt(tempC, Deg(3)) THEN "Too cold"
  ELSE IF Gt(tempC, Deg(28)) THEN "Too hot"
  ELSE "Unsuitable conditions"

\* reason inside the DONT_SPRAY branch
DontSprayReason(windMph, rainPercent, tempC, limits) ==
  IF GtLimit(windMph, limits, "risky")
    THEN "High wind (" \o NumToString(MathRound(windMph, Mph(1))) \o "mph)"
  ELSE IF Gt(rainPercent, Pct(20))
    THEN "Rain forecast (" \o NumToString(MathRound(rainPercent, Pct(1))) \o "%)"
  ELSE IF Lt(tempC, Deg(3)) THEN "Too cold"
  ELSE IF Gt(tempC, Deg(28)) THEN "Too hot"
  ELSE "Unsuitable conditions"

\* the if / else-if chain that assigns reason
ReasonOf(hour, windMph, rainPercent, tempC, limits) ==
  LET status == StatusOf(hour, windMph, rainPercent, tempC, limits) IN
  CASE status = "NIGHT" -> "Outside spraying hours (6am-8pm)"
    [] status = "PERFECT" -> "Ideal spraying conditions"
    [] status = "RISKY" -> RiskyReason(windMph, rainPercent, limits)
    [] OTHER -> DontSprayReason(windMph, rainPercent, tempC, limits)

\* Block with the wind speed scaled down for a wind from the west half
BlockByDirection(item, limits, off) ==
  LET hour == GetHours(item.dt, off)
      windMph == IF item.wind.deg >= 180 THEN 0 ELSE WindMph(item)
      rainPercent == RainPercent(item)
      tempC == TempC(item)
  IN [time    |-> TimeRange(hour),
      status  |-> StatusOf(hour, windMph, rainPercent, tempC, limits),
      wind    |-> windMph,
      windDir |-> item.wind.deg,
      rain    |-> MathRound(rainPercent, Pct(1)),
      temp    |-> tempC,
      reason  |-> ReasonOf(hour, windMph, rainPercent, tempC, limits),
      dt      |-> item.dt]

\* const block = { time, status, wind, windDir, rain, temp, reason, dt }
Block(item, limits, off) ==
  LET hour == GetHours(item.dt, off)
      windMph == WindMph(item)
      rainPercent == RainPercent(item)
      tempC == TempC(item)
  IN [time    |-> TimeRange(hour),
      status  |-> StatusOf(hour, windMph, rainPercent, tempC, limits),
      wind    |-> windMph,
      windDir |-> item.wind.deg,
      rain    |-> MathRound(rainPercent, Pct(1)),
      temp    |-> tempC,
      reason  |-> ReasonOf(hour, windMph, rainPercent, tempC, limits),
      dt      |-> item.dt]

----------------------------------------------------------------------------
(* Day grouping: dayMap is the sequence of its entries in insertion order *)

\* index of the entry of key k, 0 when !dayMap[k]
KeyIndex(map, k) ==
  IF \E n \in 1..Len(map) : map[n].key = k
  THEN CHOOSE n \in 1..Len(map) : map[n].key = k
  ELSE 0

\* PushBlock with the bucket re-created on every interval
PushBlockFresh(map, item, block, off) ==
  LET k == DayKey(item.dt, off)
      n == KeyIndex(map, k)
      entry == [key |-> k, day |-> DayLabel(item.dt, off),
                date |-> IsoDate(item.dt), blocks |-> <<block>>]
  IN IF n = 0 THEN Append(map, entry) ELSE [map EXCEPT ![n] = entry]

\* PushBlock with the block put in front of the day's blocks (unshift)
PushBlockInFront(map, item, block, off) ==
  LET k == DayKey(item.dt, off)
      n == KeyIndex(map, k)
  IN IF n = 0
     THEN Append(map, [key |-> k,
                       day |-> DayLabel(item.dt, off),
                       date |-> IsoDate(item.dt),
                       blocks |-> <<block>>])
     ELSE [map EXCEPT ![n].blocks = <<block>> \o @]

\* if (!dayMap[dayKey]) dayMap[dayKey] = {day, date, blocks: []};
\* dayMap[dayKey].blocks.push(block)
PushBlock(map, item, block, off) ==
  LET k == DayKey(item.dt, off)
      n == KeyIndex(map, k)
  IN IF n = 0
     THEN Append(map, [key |-> k,
                       day |-> DayLabel(item.dt, off),
                       date |-> IsoDate(item.dt),
                       blocks |-> <<block>>])
     ELSE [map EXCEPT ![n].blocks = Append(@, block)]

\* ObjectValues with a placeholder day emitted for an empty map
ObjectValuesPadded(map) ==
  IF map = <<>> THEN <<[day |-> "", date |-> "", blocks |-> <<>>]>>
  ELSE [n \in 1..Len(map) |-> [day |-> map[n].day, date |-> map[n].date, blocks |-> map[n].blocks]]

\* Object.values(dayMap).forEach(day => timeline.push(day))
ObjectValues(map) ==
  [n \in 1..Len(map) |-> [day |-> map[n].day, date |-> map[n].date, blocks |-> map[n].blocks]]

----------------------------------------------------------------------------
(* Window merger: findSprayWindows *)

\* currentWindow = null
Null == [null |-> TRUE]

RECURSIVE Gcd(_, _)
Gcd(m, n) == IF n = 0 THEN m ELSE Gcd(n, m % n)

\* Quotient without the division by the number of blocks
QuotientUndivided(total, count) ==
  IF IsNaN(total) THEN [num |-> 0, den |-> 0]
  ELSE [num |-> total, den |-> 1]

\* total / count, kept exact as a fraction in lowest terms; NaN is 0/0
Quotient(total, count) ==
  IF IsNaN(total) THEN [num |-> 0, den |-> 0]
  ELSE LET g == Gcd(IF total < 0 THEN -total ELSE total, count)
       IN [num |-> total \div g, den |-> count \div g]

\* x + y
Plus(x, y) == IF IsNaN(x) \/ IsNaN(y) THEN NaN ELSE x + y

RECURSIVE SumOf(_, _)
\* blocks.reduce((sum, b) => sum + b[field], 0)
SumOf(blocks, field) ==
  IF blocks = <<>> THEN 0
  ELSE Plus(blocks[Len(blocks)][field], SumOf(SubSeq(blocks, 1, Len(blocks) - 1), field))

\* Math.max(...blocks.map(b => b.rain)) for a non-empty list
MaxRain(blocks) ==
  CHOOSE m \in {blocks[n].rain : n \in 1..Len(blocks)} :
    \A n \in 1..Len(blocks) : blocks[n].rain <= m

\* currentWindow = { day, date, startTime, blocks: [block], quality }
NewWindow(day, block) ==
  [day       |-> day.day,
   date      |-> day.date,
   startTime |-> SplitDash0(block.time),
   blocks    |-> <<block>>,
   quality   |-> block.status]

\* CloseWindow with endTime taken from the first block
CloseWindowFirstBlock(w) ==
  LET firstBlock == w.blocks[1]
  IN [day           |-> w.day,
      date          |-> w.date,
      startTime     |-> w.startTime,
      quality       |-> w.quality,
      endTime       |-> SplitDash1(firstBlock.time),
      durationHours |-> Len(w.blocks) * 3,
      avgWind       |-> Quotient(SumOf(w.blocks, "wind"), Len(w.blocks)),
      avgTemp       |-> Quotient(SumOf(w.blocks, "temp"), Len(w.blocks)),
      rainChance    |-> MaxRain(w.blocks)]

\* CloseWindow without `delete currentWindow.blocks`
CloseWindowKeepBlocks(w) ==
  LET lastBlock == w.blocks[Len(w.blocks)]
  IN [day           |-> w.day,
      date          |-> w.date,
      startTime     |-> w.startTime,
      quality       |-> w.quality,
      blocks        |-> w.blocks,
      endTime       |-> SplitDash1(lastBlock.time),
      durationHours |-> Len(w.blocks) * 3,
      avgWind       |-> Quotient(SumOf(w.blocks, "wind"), Len(w.blocks)),
      avgTemp       |-> Quotient(SumOf(w.blocks, "temp"), Len(w.blocks)),
      rainChance    |-> MaxRain(w.blocks)]

\* the closing sequence: endTime, durationHours, avgWind, avgTemp,
\* rainChance are set and blocks is deleted
CloseWindow(w) ==
  LET lastBlock == w.blocks[Len(w.blocks)]
  IN [day           |-> w.day,
      date          |-> w.date,
      startTime     |-> w.startTime,
      quality       |-> w.quality,
      endTime       |-> SplitDash1(lastBlock.time),
      durationHours |-> Len(w.blocks) * 3,
      avgWind       |-> Quotient(SumOf(w.blocks, "wind"), Len(w.blocks)),
      avgTemp       |-> Quotient(SumOf(w.blocks, "temp"), Len(w.blocks)),
      rainChance    |-> MaxRain(w.blocks)]

\* Compare with the shorter window first
CompareAscending(x, y) ==
  IF x.quality = "PERFECT" /\ y.quality # "PERFECT" THEN -1
  ELSE IF x.quality # "PERFECT" /\ y.quality = "PERFECT" THEN 1
  ELSE x.durationHours - y.durationHours

\* the comparator of windows.sort
Compare(x, y) ==
  IF x.quality = "PERFECT" /\ y.quality # "PERFECT" THEN -1
  ELSE IF x.quality # "PERFECT" /\ y.quality = "PERFECT" THEN 1
  ELSE y.durationHours - x.durationHours

RECURSIVE InsertStable(_, _, _)
\* InsertStable with n put before the elements that compare equal to it
InsertBeforeEqual(ws, p, n) ==
  IF p = <<>> THEN <<n>>
  ELSE IF Compare(ws[p[Len(p)]], ws[n]) < 0 THEN Append(p, n)
  ELSE Append(InsertStable(ws, SubSeq(p, 1, Len(p) - 1), n), p[Len(p)])

\* insert index n into the sorted index list p, after every element that
\* does not compare greater than it
InsertStable(ws, p, n) ==
  IF p = <<>> THEN <<n>>
  ELSE IF Compare(ws[p[Len(p)]], ws[n]) <= 0 THEN Append(p, n)
  ELSE Append(InsertStable(ws, SubSeq(p, 1, Len(p) - 1), n), p[Len(p)])

RECURSIVE SortOrder(_, _)
\* Array.prototype.sort is stable: the order in which windows.sort leaves
\* the first n elements of ws, as a list of their indices
SortOrder(ws, n) ==
  IF n = 0 THEN <<>> ELSE InsertStable(ws, SortOrder(ws, n - 1), n)

Permute(seq, order) == [n \in 1..Len(order) |-> seq[order[n]]]

\* OnBlock with a PERFECT or RISKY block appended to whatever window is open
OnBlockMixing(cw, om, day, block, pos) ==
  IF block.status = "PERFECT" \/ block.status = "RISKY"
  THEN IF cw = Null
       THEN [cur |-> NewWindow(day, block), mem |-> <<pos>>,
             closed |-> <<>>, closedMem |-> <<>>]
       ELSE [cur |-> [cw EXCEPT !.blocks = Append(@, block)], mem |-> Append(om, pos),
             closed |-> <<>>, closedMem |-> <<>>]
  ELSE IF cw # Null /\ Len(cw.blocks) > 0
       THEN [cur |-> Null, mem |-> <<>>,
             closed |-> <<CloseWindow(cw)>>, closedMem |-> <<om>>]
       ELSE [cur |-> cw, mem |-> om, closed |-> <<>>, closedMem |-> <<>>]

\* OnBlock with currentWindow left set after a DONT_SPRAY or NIGHT block
OnBlockKeepOpen(cw, om, day, block, pos) ==
  IF block.status = "PERFECT" \/ block.status = "RISKY"
  THEN IF cw = Null
       THEN [cur |-> NewWindow(day, block), mem |-> <<pos>>,
             closed |-> <<>>, closedMem |-> <<>>]
       ELSE IF cw.quality = block.status
       THEN [cur |-> [cw EXCEPT !.blocks = Append(@, block)], mem |-> Append(om, pos),
             closed |-> <<>>, closedMem |-> <<>>]
       ELSE [cur |-> NewWindow(day, block), mem |-> <<pos>>,
             closed |-> <<CloseWindow(cw)>>, closedMem |-> <<om>>]
  ELSE IF cw # Null /\ Len(cw.blocks) > 0
       THEN [cur |-> cw, mem |-> om,
             closed |-> <<CloseWindow(cw)>>, closedMem |-> <<om>>]
       ELSE [cur |-> cw, mem |-> om, closed |-> <<>>, closedMem |-> <<>>]

\* OnBlock with the block that changes the quality discarded
OnBlockDropTrigger(cw, om, day, block, pos) ==
  IF block.status = "PERFECT" \/ block.status = "RISKY"
  THEN IF cw = Null
       THEN [cur |-> NewWindow(day, block), mem |-> <<pos>>,
             closed |-> <<>>, closedMem |-> <<>>]
       ELSE IF cw.quality = block.status
       THEN [cur |-> [cw EXCEPT !.blocks = Append(@, block)], mem |-> Append(om, pos),
             closed |-> <<>>, closedMem |-> <<>>]
       ELSE [cur |-> Null, mem |-> <<>>,
             closed |-> <<CloseWindow(cw)>>, closedMem |-> <<om>>]
  ELSE IF cw # Null /\ Len(cw.blocks) > 0
       THEN [cur |-> Null, mem |-> <<>>,
             closed |-> <<CloseWindow(cw)>>, closedMem |-> <<om>>]
       ELSE [cur |-> cw, mem |-> om, closed |-> <<>>, closedMem |-> <<>>]

\* OnBlock with the open window closed at every PERFECT or RISKY block
OnBlockSplit(cw, om, day, block, pos) ==
  IF block.status = "PERFECT" \/ block.status = "RISKY"
  THEN IF cw = Null
       THEN [cur |-> NewWindow(day, block), mem |-> <<pos>>,
             closed |-> <<>>, closedMem |-> <<>>]
       ELSE [cur |-> NewWindow(day, block), mem |-> <<pos>>,
             closed |-> <<CloseWindow(cw)>>, closedMem |-> <<om>>]
  ELSE IF cw # Null /\ Len(cw.blocks) > 0
       THEN [cur |-> Null, mem |-> <<>>,
             closed |-> <<CloseWindow(cw)>>, closedMem |-> <<om>>]
       ELSE [cur |-> cw, mem |-> om, closed |-> <<>>, closedMem |-> <<>>]

\* the body of day.blocks.forEach for one block at position pos; om and
\* mem/closedMem carry the positions of the blocks held by the windows
OnBlock(cw, om, day, block, pos) ==
  IF block.status = "PERFECT" \/ block.status = "RISKY"
  THEN IF cw = Null
       THEN [cur |-> NewWindow(day, block), mem |-> <<pos>>,
             closed |-> <<>>, closedMem |-> <<>>]
       ELSE IF cw.quality = block.status
       THEN [cur |-> [cw EXCEPT !.blocks = Append(@, block)], mem |-> Append(om, pos),
             closed |-> <<>>, closedMem |-> <<>>]
       ELSE [cur |-> NewWindow(day, block), mem |-> <<pos>>,
             closed |-> <<CloseWindow(cw)>>, closedMem |-> <<om>>]
  ELSE IF cw # Null /\ Len(cw.blocks) > 0
       THEN [cur |-> Null, mem |-> <<>>,
             closed |-> <<CloseWindow(cw)>>, closedMem |-> <<om>>]
       ELSE [cur |-> cw, mem |-> om, closed |-> <<>>, closedMem |-> <<>>]

\* "Close any remaining window at end of day"
OnEndOfDay(cw, om) ==
  IF cw # Null /\ Len(cw.blocks) > 0
  THEN [closed |-> <<CloseWindow(cw)>>, closedMem |-> <<om>>]
  ELSE [closed |-> <<>>, closedMem |-> <<>>]

----------------------------------------------------------------------------
(* The two functions as functions of their arguments *)

RECURSIVE ClassifyAll(_, _, _, _)
\* dayMap after the first n calls of the forecastData.list.forEach callback
ClassifyAll(list, n, limits, off) ==
  IF n = 0 THEN <<>>
  ELSE PushBlock(ClassifyAll(list, n - 1, limits, off), list[n],
                 Block(list[n], limits, off), off)

RECURSIVE MergeDay(_, _)
\* currentWindow and the windows closed after the first n blocks of day
MergeDay(day, n) ==
  IF n = 0 THEN [cur |-> Null, closed |-> <<>>]
  ELSE LET before == MergeDay(day, n - 1)
           r == OnBlock(before.cur, <<>>, day, day.blocks[n], <<>>)
       IN [cur |-> r.cur, closed |-> before.closed \o r.closed]

\* the windows one call of the timeline.forEach callback pushes
DayWindows(day) ==
  LET m == MergeDay(day, Len(day.blocks))
  IN m.closed \o OnEndOfDay(m.cur, <<>>).closed

RECURSIVE MergeDays(_, _)
MergeDays(tl, n) ==
  IF n = 0 THEN <<>> ELSE MergeDays(tl, n - 1) \o DayWindows(tl[n])

FindSprayWindows(tl) ==
  LET ws == MergeDays(tl, Len(tl))
  IN Permute(ws, SortOrder(ws, Len(ws)))

\* analyzeSprayConditions(forecastData, sprayType) on a server of offset off
AnalyzeSprayConditions(list, type, off) ==
  LET tl == ObjectValues(ClassifyAll(list, Len(list), LimitsFor(type), off))
  IN [recommendedWindows |-> FindSprayWindows(tl), timeline |-> tl]

----------------------------------------------------------------------------
(* Inputs *)

\* offsets of the server's time zone from UTC, in seconds (UTC, UTC+2)
TZOffsets == {0, 7200}

\* req.query.type: the three profiles, an unknown label, and two names
\* that object literals inherit
SprayTypes == {"herbicide", "fungicide", "insecticide", "organic", "constructor", "toString"}
BuiltInTypes == {"herbicide", "fungicide", "insecticide"}

\* epoch seconds of hour h (UTC) of epoch day n
At(n, h) == n * 86400 + h * 3600

Item(dt, speed, deg, pop, temp) ==
  [dt |-> dt, wind |-> [speed |-> speed, deg |-> deg], pop |-> pop, main |-> [temp |-> temp]]

\* single intervals over a grid of boundary values
GridDts == {At(1, 3), At(1, 4), At(1, 6), At(1, 12), At(1, 18), At(1, 20)}
\* speeds, with one below zero; rain probabilities, with one above 1;
\* temperatures; each of the three may also be missing
GridSpeeds == {-100, 50, 200, 447, 448, 537, 670, 671, 716, 805}
GridPops == {0, 46, 50, 145, 200, 204, 285, 300, 1500}
GridTemps == {200, 300, 500, 1800, 2500, 2800, 2900}
GridForecasts ==
  {<<Item(dt, speed, 180, pop, temp)>> :
     dt \in GridDts, speed \in GridSpeeds \cup {NaN},
     pop \in GridPops \cup {NaN}, temp \in GridTemps \cup {NaN}}

\* a catalogue of intervals of two days, one per status and more, in
\* chronological order
CatalogueInOrder ==
  <<Item(At(1, 6), 200, 90, 0, 1800),
    Item(At(1, 9), 300, 135, 100, 2000),
    Item(At(1, 12), 500, 180, 0, 2200),
    Item(At(1, 15), 900, 225, 300, 1500),
    Item(At(1, 20), 200, 270, 0, 1800),
    Item(At(2, 9), 400, 0, 20, 1000),
    Item(At(2, 12), 250, 45, 0, 2600)>>
Catalogue == {CatalogueInOrder[n] : n \in 1..Len(CatalogueInOrder)}
CatalogueForecasts == UNION {[1..n -> Catalogue] : n \in 0..MaxLen}
\* the forecasts a provider sends: the runs of consecutive intervals of the
\* catalogue, up to the whole of it
ChronologicalForecasts ==
  {SubSeq(CatalogueInOrder, m, n) : m, n \in 1..Len(CatalogueInOrder)}

\* the provider's 3-hour series: nine intervals 10800 s apart from 00:00,
\* 01:00 or 02:00 UTC of epoch day 1, their weather repeating a pattern of
\* ideal (I), marginal (M: 10 % rain) and unsuitable (U: 20 mph wind) items
SeriesStarts == {At(1, 0), At(1, 1), At(1, 2)}
SeriesPatterns == {<<"I">>, <<"M">>, <<"I", "M">>, <<"I", "I", "U">>}
SeriesItem(dt, letter) ==
  CASE letter = "I" -> Item(dt, 300, 180, 0, 1800)
    [] letter = "M" -> Item(dt, 300, 180, 100, 1800)
    [] OTHER -> Item(dt, 900, 180, 0, 1800)
ThreeHourlyForecasts ==
  {[k \in 1..9 |-> SeriesItem(start + (k - 1) * 10800, pattern[((k - 1) % Len(pattern)) + 1])] :
     start \in SeriesStarts, pattern \in SeriesPatterns}

----------------------------------------------------------------------------
(* analyzeSprayConditions(forecastData, sprayType), step by step *)

Init ==
  /\ tz \in TZOffsets
  /\ sprayType \in SprayTypes
  /\ forecast \in GridForecasts \cup CatalogueForecasts \cup ChronologicalForecasts
                  \cup ThreeHourlyForecasts
  /\ pc = "classify"
  /\ i = 1
  /\ dayMap = <<>>
  /\ timeline = <<>>
  /\ d = 1
  /\ b = 1
  /\ currentWindow = Null
  /\ windows = <<>>
  /\ openMembers = <<>>
  /\ members = <<>>
  /\ calls = <<>>
  /\ ui = <<>>
  /\ req = <<>>

\* one call of the forecastData.list.forEach callback
ClassifyItem ==
  /\ pc = "classify"
  /\ i <= Len(forecast)
  /\ dayMap' = PushBlock(dayMap, forecast[i],
                         Block(forecast[i], LimitsFor(sprayType), tz), tz)
  /\ i' = i + 1
  /\ UNCHANGED <<ui, req, calls, tz, sprayType, forecast, pc, timeline, d, b,
                 currentWindow, windows, openMembers, members>>

\* "Convert dayMap to timeline array", then findSprayWindows(timeline) is entered
CollectTimeline ==
  /\ pc = "classify"
  /\ i > Len(forecast)
  /\ timeline' = ObjectValues(dayMap)
  /\ pc' = "merge"
  /\ UNCHANGED <<ui, req, calls, tz, sprayType, forecast, i, dayMap, d, b,
                 currentWindow, windows, openMembers, members>>

\* one call of the day.blocks.forEach callback
MergeBlock ==
  /\ pc = "merge"
  /\ d <= Len(timeline)
  /\ b <= Len(timeline[d].blocks)
  /\ LET r == OnBlock(currentWindow, openMembers, timeline[d], timeline[d].blocks[b], <<d, b>>)
     IN /\ currentWindow' = r.cur
        /\ openMembers' = r.mem
        /\ windows' = windows \o r.closed
        /\ members' = members \o r.closedMem
  /\ b' = b + 1
  /\ UNCHANGED <<ui, req, calls, tz, sprayType, forecast, pc, i, dayMap, timeline, d>>

\* the end of one call of the timeline.forEach callback
EndOfDay ==
  /\ pc = "merge"
  /\ d <= Len(timeline)
  /\ b > Len(timeline[d].blocks)
  /\ LET r == OnEndOfDay(currentWindow, openMembers)
     IN /\ windows' = windows \o r.closed
        /\ members' = members \o r.closedMem
  /\ currentWindow' = Null
  /\ openMembers' = <<>>
  /\ d' = d + 1
  /\ b' = 1
  /\ UNCHANGED <<ui, req, calls, tz, sprayType, forecast, pc, i, dayMap, timeline>>

\* windows.sort(...); return windows; and the return of analyzeSprayConditions
SortWindows ==
  /\ pc = "merge"
  /\ d > Len(timeline)
  /\ LET order == SortOrder(windows, Len(windows))
     IN /\ windows' = Permute(windows, order)
        /\ members' = Permute(members, order)
  /\ pc' = "done"
  /\ UNCHANGED <<ui, req, calls, tz, sprayType, forecast, i, dayMap, timeline, d, b,
                 currentWindow, openMembers>>

Next == ClassifyItem \/ CollectTimeline \/ MergeBlock \/ EndOfDay \/ SortWindows

Spec == Init /\ [][Next]_vars

\* the value analyzeSprayConditions returns (lastUpdated aside)
Result == [recommendedWindows |-> windows, timeline |-> timeline]

----------------------------------------------------------------------------
(* Several invocations at once.  windLimits, limits, timeline and dayMap    *)
(* are declared in analyzeSprayConditions, windows and currentWindow in    *)
(* findSprayWindows: every invocation has its own, held in calls[p].  The  *)
(* steps of the invocations interleave freely.  An invocation reads the    *)
(* clock once, for lastUpdated (new Date() in the returned object); it is  *)
(* the wall clock, which can be set forward or back between two readings.  *)

\* the locals of an invocation on entry
Entry(list, type) ==
  [forecast |-> list, sprayType |-> type, pc |-> "classify", i |-> 1,
   dayMap |-> <<>>, timeline |-> <<>>, d |-> 1, b |-> 1,
   currentWindow |-> Null, windows |-> <<>>, lastUpdated |-> 0]

\* the instants (epoch seconds) the clock shows when it is read: 09:00 and
\* 21:00 UTC of epoch day 1
ClockReadings == {At(1, 9), At(1, 21)}

\* StepCall with the interval's time taken from the clock: const dt = new Date()
StepCallByClock(all, p, off, now) ==
  LET st == all[p] IN
  IF st.pc = "classify" /\ st.i <= Len(st.forecast)
  THEN LET timed == [st.forecast[st.i] EXCEPT !.dt = now]
           block == [Block(timed, LimitsFor(st.sprayType), off) EXCEPT !.dt = st.forecast[st.i].dt]
       IN [all EXCEPT ![p].dayMap = PushBlock(@, timed, block, off),
                      ![p].i = @ + 1]
  ELSE IF st.pc = "classify"
  THEN [all EXCEPT ![p].timeline = ObjectValues(st.dayMap), ![p].pc = "merge"]
  ELSE IF st.pc = "merge" /\ st.d <= Len(st.timeline) /\ st.b <= Len(st.timeline[st.d].blocks)
  THEN LET r == OnBlock(st.currentWindow, <<>>, st.timeline[st.d],
                        st.timeline[st.d].blocks[st.b], <<>>)
       IN [all EXCEPT ![p].currentWindow = r.cur,
                      ![p].windows = @ \o r.closed,
                      ![p].b = @ + 1]
  ELSE IF st.pc = "merge" /\ st.d <= Len(st.timeline)
  THEN [all EXCEPT ![p].windows = @ \o OnEndOfDay(st.currentWindow, <<>>).closed,
                   ![p].currentWindow = Null,
                   ![p].d = @ + 1,
                   ![p].b = 1]
  ELSE IF st.pc = "merge"
  THEN [all EXCEPT ![p].windows = Permute(@, SortOrder(@, Len(@))),
                   ![p].lastUpdated = now,
                   ![p].pc = "done"]
  ELSE all

\* StepCall with dayMap declared at module level: one map for all invocations
StepCallSharedMap(all, p, off, now) ==
  LET st == all[p] IN
  IF st.pc = "classify" /\ st.i <= Len(st.forecast)
  THEN LET map == PushBlock(all[1].dayMap, st.forecast[st.i],
                            Block(st.forecast[st.i], LimitsFor(st.sprayType), off), off)
       IN [q \in DOMAIN all |->
             IF q = p THEN [all[q] EXCEPT !.dayMap = map, !.i = @ + 1]
             ELSE [all[q] EXCEPT !.dayMap = map]]
  ELSE IF st.pc = "classify"
  THEN [all EXCEPT ![p].timeline = ObjectValues(st.dayMap), ![p].pc = "merge"]
  ELSE IF st.pc = "merge" /\ st.d <= Len(st.timeline) /\ st.b <= Len(st.timeline[st.d].blocks)
  THEN LET r == OnBlock(st.currentWindow, <<>>, st.timeline[st.d],
                        st.timeline[st.d].blocks[st.b], <<>>)
       IN [all EXCEPT ![p].currentWindow = r.cur,
                      ![p].windows = @ \o r.closed,
                      ![p].b = @ + 1]
  ELSE IF st.pc = "merge" /\ st.d <= Len(st.timeline)
  THEN [all EXCEPT ![p].windows = @ \o OnEndOfDay(st.currentWindow, <<>>).closed,
                   ![p].currentWindow = Null,
                   ![p].d = @ + 1,
                   ![p].b = 1]
  ELSE IF st.pc = "merge"
  THEN [all EXCEPT ![p].windows = Permute(@, SortOrder(@, Len(@))),
                   ![p].lastUpdated = now,
                   ![p].pc = "done"]
  ELSE all

\* the next step of invocation p: a forecastData.list.forEach callback,
\* the conversion of dayMap, a day.blocks.forEach callback, the end of a
\* timeline.forEach callback, or the sort and the return, where the clock
\* shows `now`
StepCall(all, p, off, now) ==
  LET st == all[p] IN
  IF st.pc = "classify" /\ st.i <= Len(st.forecast)
  THEN [all EXCEPT ![p].dayMap = PushBlock(@, st.forecast[st.i],
                                   Block(st.forecast[st.i], LimitsFor(st.sprayType), off), off),
                   ![p].i = @ + 1]
  ELSE IF st.pc = "classify"
  THEN [all EXCEPT ![p].timeline = ObjectValues(st.dayMap), ![p].pc = "merge"]
  ELSE IF st.pc = "merge" /\ st.d <= Len(st.timeline) /\ st.b <= Len(st.timeline[st.d].blocks)
  THEN LET r == OnBlock(st.currentWindow, <<>>, st.timeline[st.d],
                        st.timeline[st.d].blocks[st.b], <<>>)
       IN [all EXCEPT ![p].currentWindow = r.cur,
                      ![p].windows = @ \o r.closed,
                      ![p].b = @ + 1]
  ELSE IF st.pc = "merge" /\ st.d <= Len(st.timeline)
  THEN [all EXCEPT ![p].windows = @ \o OnEndOfDay(st.currentWindow, <<>>).closed,
                   ![p].currentWindow = Null,
                   ![p].d = @ + 1,
                   ![p].b = 1]
  ELSE IF st.pc = "merge"
  THEN [all EXCEPT ![p].windows = Permute(@, SortOrder(@, Len(@))),
                   ![p].lastUpdated = now,
                   ![p].pc = "done"]
  ELSE all

\* the requests in progress at once: two forecasts, two spray types
CallForecasts == {SubSeq(CatalogueInOrder, 1, 3), SubSeq(CatalogueInOrder, 5, 7)}
CallTypes == {"herbicide", "insecticide"}

InitCalls ==
  /\ tz \in TZOffsets
  /\ calls \in [1..MaxCalls -> {Entry(list, type) : list \in CallForecasts, type \in CallTypes}]
  /\ ui = <<>>
  /\ req = <<>>
  /\ sprayType = "herbicide"
  /\ forecast = <<>>
  /\ pc = "done"
  /\ i = 1
  /\ dayMap = <<>>
  /\ timeline = <<>>
  /\ d = 1
  /\ b = 1
  /\ currentWindow = Null
  /\ windows = <<>>
  /\ openMembers = <<>>
  /\ members = <<>>

\* invocation p takes its next step
RunCall(p) ==
  /\ calls[p].pc # "done"
  /\ \E now \in ClockReadings : calls' = StepCall(calls, p, tz, now)
  /\ UNCHANGED <<tz, sprayType, forecast, pc, i, dayMap, timeline, d, b,
                 currentWindow, windows, openMembers, members, ui, req>>

NextCalls == \E p \in 1..MaxCalls : RunCall(p)

SpecCalls == InitCalls /\ [][NextCalls]_vars

\* the value invocation p returns
ResultOf(p) ==
  [recommendedWindows |-> calls[p].windows, timeline |-> calls[p].timeline,
   lastUpdated |-> calls[p].lastUpdated]

\* a returned value with lastUpdated left aside
Analysis(r) == [recommendedWindows |-> r.recommendedWindows, timeline |-> r.timeline]

----------------------------------------------------------------------------
(* The browser: Dashboard (pages/Dashboard.tsx) and SprayWindowOptimizer   *)
(* (components/SprayWindowOptimizer.tsx).  ui holds the React state of     *)
(* both, the requests in flight (those of them whose response has come    *)
(* and whose body is being read are in `reading`) and, as history, the     *)
(* requests issued.  SprayWindowOptimizer is mounted while                 *)
(* activeTab = "spray"; every mount is a new instance with fresh state.    *)
(* The Dashboard is taken from the moment /api/user has answered and the   *)
(* tabs are rendered; `search` tells where the location search that the    *)
(* answer started (searchLocationForWeather) stands: "pending" at its      *)
(* await fetch, "reading" at its await response.json(), "done" after it,   *)
(* "none" when there is none.                                              *)

\* the engine is not running
EngineIdle ==
  /\ tz = 0
  /\ sprayType = "herbicide"
  /\ forecast = <<>>
  /\ pc = "done"
  /\ i = 1
  /\ dayMap = <<>>
  /\ timeline = <<>>
  /\ d = 1
  /\ b = 1
  /\ currentWindow = Null
  /\ windows = <<>>
  /\ openMembers = <<>>
  /\ members = <<>>
  /\ calls = <<>>

engine == <<tz, sprayType, forecast, pc, i, dayMap, timeline, d, b,
            currentWindow, windows, openMembers, members, calls>>

\* weather locations the user can select; the first is the default
Locations == {"London", "Leeds", "York"}
ButtonTypes == {"herbicide", "fungicide", "insecticide"}

\* `/api/spray-analysis?type=${sprayType}`: the query parameters sent
RequestUrl(u) == [type |-> u.sprayType]

\* the location a request names, "" unless it has both lat and lon
\* (if (queryLat && queryLon))
UrlLocation(url) ==
  IF /\ "lat" \in DOMAIN url /\ "lon" \in DOMAIN url
     /\ url.lat # "" /\ url.lon # ""
  THEN url.lat
  ELSE ""

\* useState initial values of SprayWindowOptimizer
FreshState(u) ==
  [u EXCEPT !.sprayType = "herbicide", !.loading = TRUE, !.error = "", !.analysis = Null]

\* fetchSprayAnalysis up to its first await: setLoading(true), fetch(...)
FetchSprayAnalysis(u) ==
  LET r == [id |-> Cardinality(u.issued) + 1, instance |-> u.instance, url |-> RequestUrl(u)]
  IN [u EXCEPT !.loading = TRUE,
               !.inFlight = @ \cup {r},
               !.issued = @ \cup {r}]

\* SelectorShown with the selector rendered in the loading and error views too
SelectorShownAlways(u) == u.activeTab = "spray"

\* the spray type buttons are rendered: not the loading view, not the error
\* view, and there is an analysis
SelectorShown(u) ==
  /\ u.activeTab = "spray"
  /\ ~u.loading
  /\ u.error = ""
  /\ u.analysis # Null

\* the profile has a location other than the saved one's name, or has
\* none (or the saved one's: searchLocationForWeather returns at once)
InitUI ==
  /\ EngineIdle
  /\ req = <<>>
  /\ \E l \in Locations, search \in {"pending", "none"} :
       ui = [activeTab |-> "market", savedLocation |-> l, locationUpdated |-> 0,
             search |-> search,
             instance |-> 0, sprayType |-> "herbicide", loading |-> TRUE,
             error |-> "", analysis |-> Null,
             inFlight |-> {}, reading |-> {}, issued |-> {},
             selectedAt |-> 0, selectedInSpray |-> FALSE]

\* setActiveTab('spray'): SprayWindowOptimizer mounts and its effect runs
ShowSprayTab ==
  /\ ui.activeTab # "spray"
  /\ Cardinality(ui.issued) < MaxRequests
  /\ ui' = FetchSprayAnalysis([FreshState(ui) EXCEPT !.activeTab = "spray", !.instance = @ + 1])
  /\ UNCHANGED <<engine, req>>

\* setActiveTab('market'): SprayWindowOptimizer unmounts, its state is gone
ShowMarketTab ==
  /\ ui.activeTab = "spray"
  /\ ui' = [FreshState(ui) EXCEPT !.activeTab = "market"]
  /\ UNCHANGED <<engine, req>>

\* onClick={() => setSprayType(t)}, then the effect on [sprayType]
ClickSprayType(t) ==
  /\ SelectorShown(ui)
  /\ t # ui.sprayType
  /\ Cardinality(ui.issued) < MaxRequests
  /\ ui' = FetchSprayAnalysis([ui EXCEPT !.sprayType = t])
  /\ UNCHANGED <<engine, req>>

\* the Try Again button of the error view: onClick={fetchSprayAnalysis}
TryAgain ==
  /\ ui.activeTab = "spray"
  /\ ~ui.loading
  /\ ui.error # ""
  /\ Cardinality(ui.issued) < MaxRequests
  /\ ui' = FetchSprayAnalysis(ui)
  /\ UNCHANGED <<engine, req>>

\* selectLocation(location): the props locationUpdated and currentLocation
\* of SprayWindowOptimizer change; the component declares no props and its
\* effect depends on [sprayType] only.  selectedAt and selectedInSpray
\* record the last selection of a location other than the saved one.
SelectLocation(l) ==
  /\ ui.locationUpdated < MaxSelects
  /\ ui' = IF l # ui.savedLocation
           THEN [ui EXCEPT !.savedLocation = l,
                           !.locationUpdated = @ + 1,
                           !.selectedAt = Cardinality(ui.issued),
                           !.selectedInSpray = (ui.activeTab = "spray")]
           ELSE [ui EXCEPT !.locationUpdated = @ + 1]
  /\ UNCHANGED <<engine, req>>

\* await fetch of searchLocationForWeather settles: a rejected fetch ends
\* in the catch block, a response is read next (await response.json());
\* no setter is called
SearchLocationReturns(ok) ==
  /\ ui.search = "pending"
  /\ ui' = [ui EXCEPT !.search = IF ok THEN "reading" ELSE "done"]
  /\ UNCHANGED <<engine, req>>

\* await response.json() of searchLocationForWeather settles:
\* setSavedLocation with the first place found, and no setLocationUpdated;
\* nothing when no place is found or the body is not JSON ("")
SearchLocationBodyRead(l) ==
  /\ ui.search = "reading"
  /\ ui' = IF l = "" THEN [ui EXCEPT !.search = "done"]
           ELSE [ui EXCEPT !.search = "done", !.savedLocation = l]
  /\ UNCHANGED <<engine, req>>

\* is the instance that issued r still mounted: the setters of one that is
\* not do nothing
Mounted(u, r) == u.activeTab = "spray" /\ r.instance = u.instance

\* the catch and finally blocks of fetchSprayAnalysis for request r
Failed(u, r) ==
  LET gone == [u EXCEPT !.inFlight = @ \ {r}, !.reading = @ \ {r}]
  IN IF Mounted(u, r)
     THEN [gone EXCEPT !.error = "Unable to load spray conditions. Please try again.",
                       !.loading = FALSE]
     ELSE gone

\* setAnalysis(data), setError(''), and the finally block for request r
Loaded(u, r) ==
  LET gone == [u EXCEPT !.inFlight = @ \ {r}, !.reading = @ \ {r}]
  IN IF Mounted(u, r)
     THEN [gone EXCEPT !.analysis = [type |-> r.url.type, location |-> UrlLocation(r.url)],
                       !.error = "",
                       !.loading = FALSE]
     ELSE gone

\* await fetch(...) of request r settles: a rejected fetch or a response
\* that is not ok ends in the catch block, an ok response is read next
\* (await response.json())
Respond(r, ok) ==
  /\ r \in ui.inFlight \ ui.reading
  /\ ui' = IF ok THEN [ui EXCEPT !.reading = @ \cup {r}] ELSE Failed(ui, r)
  /\ UNCHANGED <<engine, req>>

\* await response.json() of request r settles: the data, or a rejection
\* for a body that is not JSON
ReadBody(r, ok) ==
  /\ r \in ui.reading
  /\ ui' = IF ok THEN Loaded(ui, r) ELSE Failed(ui, r)
  /\ UNCHANGED <<engine, req>>

Arrival == \E r \in ui.inFlight, ok \in BOOLEAN : Respond(r, ok)
BodyArrival == \E r \in ui.reading, ok \in BOOLEAN : ReadBody(r, ok)

NextUI ==
  \/ ShowSprayTab
  \/ ShowMarketTab
  \/ \E t \in ButtonTypes : ClickSprayType(t)
  \/ TryAgain
  \/ \E l \in Locations : SelectLocation(l)
  \/ \E ok \in BOOLEAN : SearchLocationReturns(ok)
  \/ \E l \in Locations \cup {""} : SearchLocationBodyRead(l)
  \/ Arrival
  \/ BodyArrival

\* every request is answered and every body read
SpecUI ==
  InitUI /\ [][NextUI]_vars /\ WF_vars(Arrival) /\ WF_vars(BodyArrival)

----------------------------------------------------------------------------
(* The server: one GET /api/spray-analysis request through requireAuth and *)
(* the handler.  req holds what the request and its collaborators supply   *)
(* (session, environment, query, database row, geocoding reply, forecast   *)
(* payload), the position in the handler, and what has been sent.          *)

\* forecast payloads: an error object without list, an empty list, a list
\* of well-formed intervals, a list whose second interval has no wind
Payloads == {"no list", "empty", "intervals", "bad interval"}
\* a body that is not JSON: json() rejects
Unparsable == "unparsable"
PayloadList(payload) ==
  IF payload = "empty" THEN <<>> ELSE SubSeq(CatalogueInOrder, 1, 3)

\* res.status(code).json(body) / res.json(body)
Send(q, code, body) ==
  [q EXCEPT !.responses = Append(@, [status |-> code, body |-> body]), !.pc = "end"]

\* the catch block
Caught(q) == Send(q, 500, [message |-> "Failed to analyze spray conditions"])

\* function requireAuth(req, res, next)
RequireAuthStep(q) ==
  IF q.userId THEN [q EXCEPT !.pc = "start"]
  ELSE Send(q, 401, [message |-> "Unauthorized"])

\* HandlerStart without `return` in front of the 500 response
HandlerStartNoReturn(q) ==
  LET sent == IF ~q.apiKey
              THEN [q EXCEPT !.responses =
                      Append(@, [status |-> 500,
                                 body |-> [message |-> "Weather API key not configured"]])]
              ELSE q
  IN IF q.coords = "both"
     THEN [sent EXCEPT !.pc = "forecast", !.lookups = @ + 1]
     ELSE [sent EXCEPT !.pc = "db", !.lookups = @ + 1]

\* the handler up to its first await: the API key test, then either the
\* forecast fetch (lat and lon given) or pool.query
HandlerStart(q) ==
  IF ~q.apiKey
  THEN Send(q, 500, [message |-> "Weather API key not configured"])
  ELSE IF q.coords = "both"
  THEN [q EXCEPT !.pc = "forecast", !.lookups = @ + 1]
  ELSE [q EXCEPT !.pc = "db", !.lookups = @ + 1]

\* pool.query returns or throws; then the geocoding fetch
AfterQuery(q) ==
  IF q.db = "throws" THEN Caught(q)
  ELSE IF q.db \in {"no row", "no location"}
  THEN Send(q, 400, [message |-> "Farm location not set. Please update your profile."])
  ELSE [q EXCEPT !.pc = "geo", !.lookups = @ + 1]

\* the geocoding fetch settles: it rejects, or its body is read next
\* (await geoResponse.json())
AfterGeocoding(q) ==
  IF q.geoFetch = "throws" THEN Caught(q)
  ELSE [q EXCEPT !.pc = "geo body"]

\* the geocoding body: not JSON (json() rejects), an error object
\* (geoData[0] is undefined, reading lat throws), an empty array, or an
\* array with a place; then the forecast fetch
AfterGeocodingBody(q) ==
  IF q.geo \in {Unparsable, "error object"} THEN Caught(q)
  ELSE IF q.geo = "empty"
  THEN Send(q, 400, [message |-> "Could not find coordinates for your farm location"])
  ELSE [q EXCEPT !.pc = "forecast", !.lookups = @ + 1]

\* the forecast fetch settles: it rejects, or its body is read next
\* (await forecastResponse.json())
AfterForecast(q) ==
  IF q.forecastFetch = "throws" THEN Caught(q)
  ELSE [q EXCEPT !.pc = "forecast body"]

\* the forecast body, analyzeSprayConditions and res.json(analysis);
\* json() rejects on a body that is not JSON, forecastData.list.forEach
\* throws on a payload without list, and item.wind.speed throws on an
\* interval without wind
AfterForecastBody(q) ==
  IF q.payload \in {Unparsable, "no list", "bad interval"} THEN Caught(q)
  ELSE Send([q EXCEPT !.analysed = TRUE], 200,
            AnalyzeSprayConditions(PayloadList(q.payload), q.type, tz))

InitRequest ==
  /\ EngineIdle
  /\ ui = <<>>
  /\ req \in [userId : BOOLEAN, apiKey : BOOLEAN,
              coords : {"both", "lat only", "none"},
              type : {"herbicide", "insecticide"},
              db : {"row", "no row", "no location", "throws"},
              geoFetch : {"returns", "throws"},
              geo : {"place", "empty", "error object", Unparsable},
              forecastFetch : {"returns", "throws"},
              payload : Payloads \cup {Unparsable},
              pc : {"auth"}, lookups : {0}, analysed : {FALSE}, responses : {<<>>}]

RequireAuth ==
  /\ req.pc = "auth"
  /\ req' = RequireAuthStep(req)
  /\ UNCHANGED <<engine, ui>>

Start ==
  /\ req.pc = "start"
  /\ req' = HandlerStart(req)
  /\ UNCHANGED <<engine, ui>>

QueryReturns ==
  /\ req.pc = "db"
  /\ req' = AfterQuery(req)
  /\ UNCHANGED <<engine, ui>>

GeocodingReturns ==
  /\ req.pc = "geo"
  /\ req' = AfterGeocoding(req)
  /\ UNCHANGED <<engine, ui>>

GeocodingBodyRead ==
  /\ req.pc = "geo body"
  /\ req' = AfterGeocodingBody(req)
  /\ UNCHANGED <<engine, ui>>

ForecastReturns ==
  /\ req.pc = "forecast"
  /\ req' = AfterForecast(req)
  /\ UNCHANGED <<engine, ui>>

ForecastBodyRead ==
  /\ req.pc = "forecast body"
  /\ req' = AfterForecastBody(req)
  /\ UNCHANGED <<engine, ui>>

NextRequest ==
  \/ RequireAuth
  \/ Start
  \/ QueryReturns
  \/ GeocodingReturns
  \/ GeocodingBodyRead
  \/ ForecastReturns
  \/ ForecastBodyRead

SpecRequest == InitRequest /\ [][NextRequest]_vars

----------------------------------------------------------------------------
(* Reading the state *)

AllDone == pc = "done"

\* the block stored for the k-th interval of the forecast (k < i): the
\* bucket of its local date, at the rank of k among the intervals of that date
LocalDate(k) == LocalDayNumber(forecast[k].dt, tz)
BucketOf(k) ==
  CHOOSE n \in 1..Len(dayMap) :
    LocalDayNumber(dayMap[n].blocks[1].dt, tz) = LocalDate(k)
RankOf(k) == Cardinality({j \in 1..k : LocalDate(j) = LocalDate(k)})
StoredBlock(k) == dayMap[BucketOf(k)].blocks[RankOf(k)]
Classified == 1..(i - 1)

BlockAt(pos) == timeline[pos[1]].blocks[pos[2]]
Positions ==
  UNION {{<<n, j>> : j \in 1..Len(timeline[n].blocks)} : n \in 1..Len(timeline)}
Range(seq) == {seq[n] : n \in 1..Len(seq)}

RECURSIVE SumSeq(_)
SumSeq(seq) == IF seq = <<>> THEN 0 ELSE seq[1] + SumSeq(Tail(seq))

----------------------------------------------------------------------------
(* C1: every input interval is put into exactly one day's blocks exactly   *)
(* once: the number of blocks over all timeline days equals the number of  *)
(* input intervals, and the blocks of each day are the intervals of that   *)
(* day's local date in their input order.                                  *)

TimelineSize == SumSeq([n \in 1..Len(timeline) |-> Len(timeline[n].blocks)])

\* the whole percentages within half a percent of pop * 100, pop in thousandths
NearestPercents(pop) ==
  {n \in 0..((pop + 9) \div 10) : 10 * n - 5 <= pop /\ pop <= 10 * n + 5}

SameInterval(block, item) ==
  /\ block.dt = item.dt
  /\ block.windDir = item.wind.deg
  /\ block.wind = (IF item.wind.speed = NaN THEN NaN ELSE item.wind.speed * 2237)
  /\ block.temp = item.main.temp
  /\ block.rain \in (IF item.pop = NaN THEN {0} ELSE NearestPercents(item.pop))

C1_Complete ==
  pc # "classify" =>
    /\ TimelineSize = Len(forecast)
    /\ \A n \in 1..Len(timeline) :
         LET blocks == timeline[n].blocks
             OfDay(item) == LocalDayNumber(item.dt, tz) = LocalDayNumber(blocks[1].dt, tz)
             sel == SelectSeq(forecast, OfDay)
         IN /\ Len(blocks) = Len(sel)
            /\ \A j \in 1..Len(blocks) : SameInterval(blocks[j], sel[j])

\* a finished run whose second interval is of another day than the first and third
C1_Witness ==
  /\ AllDone
  /\ Len(forecast) = 3
  /\ Len(timeline) = 2
  /\ Len(timeline[1].blocks) = 2
  /\ forecast[1].dt # forecast[3].dt
  /\ LocalDayNumber(forecast[2].dt, tz) # LocalDayNumber(forecast[1].dt, tz)

----------------------------------------------------------------------------
(* C2: for an interval whose rain percentage is a whole number and a       *)
(* built-in profile, the status equals the reference rule in priority      *)
(* order: NIGHT if hour < 6 or hour >= 20; else PERFECT if wind in         *)
(* [2, perfectMax], rain < 5 and temp in [5, 25]; else RISKY if wind in    *)
(* (perfectMax, riskyMax] or rain in [5, 20] or temp in [3, 5) or          *)
(* (25, 28]; else DONT_SPRAY.  Quantities are those the block reports:     *)
(* wind in 1e-5 mph, rain in whole percent, temp in centidegrees.          *)

ReferenceStatus(hour, wind, rain, temp, perfectMax, riskyMax) ==
  IF hour < 6 \/ hour >= 20 THEN "NIGHT"
  ELSE IF /\ 2 * 100000 <= wind /\ wind <= perfectMax * 100000
          /\ rain < 5
          /\ 5 * 100 <= temp /\ temp <= 25 * 100
       THEN "PERFECT"
  ELSE IF \/ (perfectMax * 100000 < wind /\ wind <= riskyMax * 100000)
          \/ (5 <= rain /\ rain <= 20)
          \/ (3 * 100 <= temp /\ temp < 5 * 100)
          \/ (25 * 100 < temp /\ temp <= 28 * 100)
       THEN "RISKY"
  ELSE "DONT_SPRAY"

WholeRain(k) == forecast[k].pop # NaN /\ forecast[k].pop % 10 = 0
\* the interval has a wind speed and a temperature
Measured(k) == forecast[k].wind.speed # NaN /\ forecast[k].main.temp # NaN

C2_ReferenceRule ==
  \A k \in Classified :
    (sprayType \in BuiltInTypes /\ WholeRain(k) /\ Measured(k)) =>
      LET block == StoredBlock(k)
          profile == windLimits[sprayType]
      IN /\ block.status \in {"NIGHT", "PERFECT", "RISKY", "DONT_SPRAY"}
         /\ block.status = ReferenceStatus(GetHours(block.dt, tz), block.wind, block.rain,
                                           block.temp, profile.perfect, profile.risky)

\* a daytime interval at exactly 25 C, classified PERFECT by a built-in profile
C2_Witness ==
  \E k \in Classified :
    /\ sprayType \in BuiltInTypes
    /\ WholeRain(k)
    /\ StoredBlock(k).temp = 2500
    /\ StoredBlock(k).status = "PERFECT"

----------------------------------------------------------------------------
(* C3 (as stated): the rain thresholds are compared against the rounded    *)
(* percentage, so an interval and any interval that differs from it only   *)
(* in a rain probability rounding to the same whole percentage have the    *)
(* same status.                                                            *)

\* the interval k with its rain probability replaced by pop
WithPop(k, pop) == [forecast[k] EXCEPT !.pop = pop]
StatusWithPop(k, pop) == Block(WithPop(k, pop), LimitsFor(sprayType), tz).status
RoundedPercent(pop) == MathRound(TimesHundred(pop), Pct(1))

C3_RoundedThresholds ==
  \A k \in Classified : \A pop \in GridPops :
    (forecast[k].pop # NaN /\ RoundedPercent(pop) = StoredBlock(k).rain) =>
      StatusWithPop(k, pop) = StoredBlock(k).status

(* C3 (amended): the thresholds are compared against the unrounded         *)
(* percentage pop * 100: an interval and any interval that differs from    *)
(* it only in a rain probability of the same band (below 5, 5 to 20,       *)
(* above 20, unrounded) have the same status.                              *)

RainBand(pop) ==
  IF pop * 100 < 5 * 1000 THEN "below 5"
  ELSE IF pop * 100 <= 20 * 1000 THEN "5 to 20"
  ELSE "above 20"

C3_UnroundedThresholds ==
  \A k \in Classified : \A pop \in GridPops :
    (forecast[k].pop # NaN /\ RainBand(pop) = RainBand(forecast[k].pop)) =>
      StatusWithPop(k, pop) = StoredBlock(k).status

\* an interval of 4.6% rain, reported as 5, classified PERFECT
C3_Witness ==
  \E k \in Classified :
    /\ forecast[k].pop = 46
    /\ StoredBlock(k).rain = 5
    /\ StoredBlock(k).status = "PERFECT"

----------------------------------------------------------------------------
(* C4: every interval whose local hour is < 6 or >= 20 has status NIGHT    *)
(* and reason "Outside spraying hours (6am-8pm)" whatever its wind, rain   *)
(* and temperature, and no NIGHT interval is among the blocks of a window, *)
(* open or closed.                                                         *)

HourOf(dt) == ((dt + tz) \div 3600) % 24
WindowPositions == Range(openMembers) \cup UNION {Range(members[n]) : n \in 1..Len(members)}

C4_NightExcluded ==
  /\ \A k \in Classified :
       (HourOf(forecast[k].dt) < 6 \/ HourOf(forecast[k].dt) >= 20) =>
         /\ StoredBlock(k).status = "NIGHT"
         /\ StoredBlock(k).reason = "Outside spraying hours (6am-8pm)"
  /\ \A pos \in WindowPositions : BlockAt(pos).status # "NIGHT"

\* a finished run with an interval at 8pm, of ideal numbers, after a window of its day
C4_Witness ==
  /\ AllDone
  /\ \E pos \in Positions :
       /\ HourOf(BlockAt(pos).dt) = 20
       /\ BlockAt(pos).status = "NIGHT"
       /\ BlockAt(pos).temp = 1800 /\ BlockAt(pos).rain = 0 /\ BlockAt(pos).wind = 200 * 2237
  /\ \E pos \in Positions : BlockAt(pos).status = "NIGHT" /\ pos[2] > 1
  /\ windows # <<>>

----------------------------------------------------------------------------
(* C5 (as stated): a daytime interval of 16 mph wind, no rain and 18 C is  *)
(* DONT_SPRAY with reason "High wind (16mph)" under herbicide and PERFECT  *)
(* under insecticide.                                                      *)

Wind16(k) ==
  /\ forecast[k].wind.speed = 716
  /\ forecast[k].pop = 0
  /\ forecast[k].main.temp = 1800
  /\ HourOf(forecast[k].dt) >= 6 /\ HourOf(forecast[k].dt) < 20

C5_Wind16PerfectForInsecticide ==
  \A k \in Classified :
    Wind16(k) =>
      /\ sprayType = "herbicide" =>
           /\ StoredBlock(k).status = "DONT_SPRAY"
           /\ StoredBlock(k).reason = "High wind (16mph)"
      /\ sprayType = "insecticide" => StoredBlock(k).status = "PERFECT"

(* C5 (amended): that interval is DONT_SPRAY with reason                   *)
(* "High wind (16mph)" under herbicide and RISKY with reason               *)
(* "Wind approaching limit" under insecticide.                             *)

C5_Wind16RiskyForInsecticide ==
  \A k \in Classified :
    Wind16(k) =>
      /\ sprayType = "herbicide" =>
           /\ StoredBlock(k).status = "DONT_SPRAY"
           /\ StoredBlock(k).reason = "High wind (16mph)"
      /\ sprayType = "insecticide" =>
           /\ StoredBlock(k).status = "RISKY"
           /\ StoredBlock(k).reason = "Wind approaching limit"

\* the 16 mph interval classified under the insecticide profile
C5_Witness ==
  \E k \in Classified :
    /\ Wind16(k)
    /\ sprayType = "insecticide"
    /\ MathRound(StoredBlock(k).wind, 100000) = 16
    /\ StoredBlock(k).status = "RISKY"

----------------------------------------------------------------------------
(* C6: for every spray-type label other than herbicide, fungicide and      *)
(* insecticide, names such as "constructor" and "toString" included, the   *)
(* analysis returns what it returns for the label herbicide on the same    *)
(* forecast: the same timeline statuses and reasons and the same windows.  *)

C6_UnknownLabelIsHerbicide ==
  (AllDone /\ sprayType \notin BuiltInTypes) =>
     Result = AnalyzeSprayConditions(forecast, "herbicide", tz)

----------------------------------------------------------------------------
(* C7: for an empty forecast list the analysis returns an empty timeline   *)
(* and an empty recommendedWindows list.                                   *)

C7_EmptyForecast ==
  (AllDone /\ forecast = <<>>) =>
     /\ Result.timeline = <<>>
     /\ Result.recommendedWindows = <<>>

\* the analysis of the empty forecast has returned
C7_Witness == AllDone /\ forecast = <<>> /\ i = 1 /\ d = 1

----------------------------------------------------------------------------
(* C8: every window has quality PERFECT or RISKY, all of its member        *)
(* intervals have that quality as status, all of them are of one           *)
(* DayTimeline, and the window carries the day and the date of that        *)
(* DayTimeline; its duration is that of its members.                       *)

C8_WindowsUniform ==
  pc # "classify" =>
    \A n \in 1..Len(windows) :
      LET w == windows[n]
          m == members[n]
      IN /\ w.quality \in {"PERFECT", "RISKY"}
         /\ m # <<>>
         /\ \A pos \in Range(m) :
              /\ BlockAt(pos).status = w.quality
              /\ pos[1] = m[1][1]
              /\ w.day = timeline[pos[1]].day
              /\ w.date = timeline[pos[1]].date
         /\ w.durationHours = 3 * Len(m)

\* a finished run with a window of two intervals and, in the same day, a
\* window of the other quality
C8_Witness ==
  /\ AllDone
  /\ \E n, k \in 1..Len(windows) :
       /\ Len(members[n]) = 2
       /\ members[k][1][1] = members[n][1][1]
       /\ windows[k].quality # windows[n].quality

----------------------------------------------------------------------------
(* C9: in the merge pass, once a DONT_SPRAY or NIGHT interval has been     *)
(* processed no window is open, and if the interval before it was PERFECT  *)
(* or RISKY, the window closed last has as endTime the end of that         *)
(* interval's time range and that interval as its last member.             *)

JustProcessed(statuses) ==
  /\ pc = "merge"
  /\ d <= Len(timeline)
  /\ b > 1
  /\ timeline[d].blocks[b - 1].status \in statuses

C9_BadIntervalCloses ==
  JustProcessed({"DONT_SPRAY", "NIGHT"}) =>
    /\ currentWindow = Null
    /\ openMembers = <<>>
    /\ (b > 2 /\ timeline[d].blocks[b - 2].status \in {"PERFECT", "RISKY"}) =>
         /\ windows # <<>>
         /\ LET w == windows[Len(windows)]
                m == members[Len(members)]
                last == timeline[d].blocks[b - 2]
            IN /\ m[Len(m)] = <<d, b - 2>>
               /\ last.time = SplitDash0(last.time) \o "-" \o w.endTime

\* a DONT_SPRAY or NIGHT interval has just closed a window of two intervals
C9_Witness ==
  /\ JustProcessed({"DONT_SPRAY", "NIGHT"})
  /\ b > 3
  /\ timeline[d].blocks[b - 2].status \in {"PERFECT", "RISKY"}
  /\ windows # <<>>
  /\ Len(members[Len(members)]) = 2

----------------------------------------------------------------------------
(* C10: in the result every PERFECT or RISKY interval of the timeline is a *)
(* member of exactly one window, so the durations of the windows sum to 3  *)
(* times the number of such intervals; a day of statuses PERFECT, RISKY,   *)
(* RISKY gives a PERFECT window of 3 hours and a RISKY window of 6 hours.  *)

Sprayable == {pos \in Positions : BlockAt(pos).status \in {"PERFECT", "RISKY"}}
Memberships(pos) ==
  {x \in UNION {{<<n, j>> : j \in 1..Len(members[n])} : n \in 1..Len(members)} :
     members[x[1]][x[2]] = pos}
DayStatuses(n) == [j \in 1..Len(timeline[n].blocks) |-> timeline[n].blocks[j].status]
WindowsOfDay(n) == {k \in 1..Len(windows) : members[k][1][1] = n}

C10_EveryGoodIntervalInOneWindow ==
  AllDone =>
    /\ \A pos \in Sprayable : Cardinality(Memberships(pos)) = 1
    /\ SumSeq([n \in 1..Len(windows) |-> windows[n].durationHours])
         = 3 * Cardinality(Sprayable)
    /\ \A n \in 1..Len(timeline) :
         DayStatuses(n) = <<"PERFECT", "RISKY", "RISKY">> =>
           /\ Cardinality(WindowsOfDay(n)) = 2
           /\ \E k \in WindowsOfDay(n) :
                windows[k].quality = "PERFECT" /\ windows[k].durationHours = 3
           /\ \E k \in WindowsOfDay(n) :
                windows[k].quality = "RISKY" /\ windows[k].durationHours = 6

\* a finished run with a day of statuses PERFECT, RISKY, RISKY
C10_Witness ==
  /\ AllDone
  /\ \E n \in 1..Len(timeline) : DayStatuses(n) = <<"PERFECT", "RISKY", "RISKY">>
  /\ Len(windows) = 2

----------------------------------------------------------------------------
(* C11: for every window, whichever of the three paths closed it (quality  *)
(* change, DONT_SPRAY/NIGHT interval, end of day): startTime is the start  *)
(* of its first member's time range, endTime the end of its last member's, *)
(* durationHours 3 times the member count, avgWind and avgTemp the         *)
(* arithmetic means of the members' wind and temp, rainChance the maximum  *)
(* of the members' rain.                                                   *)

\* the path that closed the n-th window, from where its last member stands
ClosingPath(n) ==
  LET last == members[n][Len(members[n])]
      blocks == timeline[last[1]].blocks
  IN IF last[2] = Len(blocks) THEN "end of day"
     ELSE IF blocks[last[2] + 1].status \in {"PERFECT", "RISKY"} THEN "quality change"
     ELSE "bad interval"

MemberValues(n, field) == [j \in 1..Len(members[n]) |-> BlockAt(members[n][j])[field]]

\* q is the mean of the numbers of seq (NaN, that is 0/0, if one of them is NaN)
IsMean(q, seq) ==
  IF NaN \in Range(seq) THEN q.num = 0 /\ q.den = 0
  ELSE q.den > 0 /\ q.num * Len(seq) = q.den * SumSeq(seq)

C11_WindowSummaries ==
  pc # "classify" =>
    \A n \in 1..Len(windows) :
      LET w == windows[n]
          m == members[n]
          first == BlockAt(m[1])
          last == BlockAt(m[Len(m)])
      IN /\ ClosingPath(n) \in {"quality change", "bad interval", "end of day"}
         /\ first.time = w.startTime \o "-" \o SplitDash1(first.time)
         /\ last.time = SplitDash0(last.time) \o "-" \o w.endTime
         /\ w.durationHours = 3 * Len(m)
         /\ IsMean(w.avgWind, MemberValues(n, "wind"))
         /\ IsMean(w.avgTemp, MemberValues(n, "temp"))
         /\ w.rainChance \in Range(MemberValues(n, "rain"))
         /\ \A r \in Range(MemberValues(n, "rain")) : r <= w.rainChance

\* a finished run with a window closed on each path, one of them of two
\* members of different wind, temperature and rain
C11_Witness ==
  /\ AllDone
  /\ \A path \in {"quality change", "bad interval", "end of day"} :
       \E n \in 1..Len(windows) : ClosingPath(n) = path
  /\ \E n \in 1..Len(windows) :
       /\ Len(members[n]) = 2
       /\ \A field \in {"wind", "temp", "rain", "time"} :
            MemberValues(n, field)[1] # MemberValues(n, field)[2]

----------------------------------------------------------------------------
(* C12: in the returned list no RISKY window precedes a PERFECT window,    *)
(* and of two adjacent windows of equal quality the first is at least as   *)
(* long as the second.                                                     *)

C12_Ranked ==
  AllDone =>
    \A n \in 1..(Len(windows) - 1) :
      LET x == windows[n]
          y == windows[n + 1]
      IN /\ x.quality = "PERFECT" \/ y.quality # "PERFECT"
         /\ x.quality = y.quality => x.durationHours >= y.durationHours

\* position pos comes before position other in the merge pass
Before(pos, other) == pos[1] < other[1] \/ (pos[1] = other[1] /\ pos[2] < other[2])

\* the sort has moved a window ahead of one closed before it
Reordered == \E n, k \in 1..Len(windows) : n < k /\ Before(members[k][1], members[n][1])

\* a finished run whose windows the sort reordered, with both qualities and
\* two RISKY windows of different durations
C12_Witness ==
  /\ AllDone
  /\ Reordered
  /\ \E n, k \in 1..Len(windows) :
       /\ windows[n].quality = "RISKY" /\ windows[k].quality = "RISKY"
       /\ windows[n].durationHours > windows[k].durationHours
  /\ \E n \in 1..Len(windows) : windows[n].quality = "PERFECT"

----------------------------------------------------------------------------
(* C13: the ranking is stable: two windows of the same quality and the     *)
(* same durationHours are in the returned list in the order in which they  *)
(* were closed, by timeline day and then by position within the day.       *)

Tied(x, y) == x.quality = y.quality /\ x.durationHours = y.durationHours

C13_StableRanking ==
  AllDone =>
    \A n, k \in 1..Len(windows) :
      (n < k /\ Tied(windows[n], windows[k])) => Before(members[n][1], members[k][1])

\* a finished run with two tied windows, whose windows the sort reordered
C13_Witness ==
  /\ AllDone
  /\ Reordered
  /\ \E n, k \in 1..Len(windows) : n < k /\ Tied(windows[n], windows[k])

----------------------------------------------------------------------------
(* C14: classification is deterministic: two invocations on the same      *)
(* forecast and spray type, whenever each of them runs and reads the       *)
(* clock, return the same timeline (status and reason of every interval)   *)
(* and the same window list; the values they return differ in lastUpdated  *)
(* at most, which is the instant the invocation returned.                  *)

C14_SameInputSameResult ==
  \A p, q \in DOMAIN calls :
    /\ calls[p].pc = "done"
    /\ calls[q].pc = "done"
    /\ calls[p].forecast = calls[q].forecast
    /\ calls[p].sprayType = calls[q].sprayType
    => /\ [ResultOf(p) EXCEPT !.lastUpdated = ResultOf(q).lastUpdated] = ResultOf(q)
       /\ ResultOf(p).lastUpdated \in ClockReadings
       /\ \A n \in 1..Len(ResultOf(p).timeline) :
            \A j \in 1..Len(ResultOf(p).timeline[n].blocks) :
              /\ ResultOf(p).timeline[n].blocks[j].status =
                   ResultOf(q).timeline[n].blocks[j].status
              /\ ResultOf(p).timeline[n].blocks[j].reason =
                   ResultOf(q).timeline[n].blocks[j].reason

\* two invocations on the same forecast and spray type have returned a
\* window, the first at 09:00 and the second at 21:00: the values they
\* return differ, in lastUpdated
C14_Witness ==
  /\ calls # <<>>
  /\ calls[1].pc = "done"
  /\ calls[2].pc = "done"
  /\ calls[1].forecast = calls[2].forecast
  /\ calls[1].sprayType = calls[2].sprayType
  /\ calls[1].windows # <<>>
  /\ ResultOf(1).lastUpdated = At(1, 9)
  /\ ResultOf(2).lastUpdated = At(1, 21)
  /\ ResultOf(1) # ResultOf(2)

----------------------------------------------------------------------------
(* C15 (as stated): a daytime interval whose wind, rain probability or     *)
(* temperature is NaN-like or outside its physical range (wind < 0, rain   *)
(* above 100%, missing or NaN pop, NaN temperature) is DONT_SPRAY whatever *)
(* the other two quantities are.                                           *)

Daytime(k) == HourOf(forecast[k].dt) >= 6 /\ HourOf(forecast[k].dt) < 20
BadWind(k) == forecast[k].wind.speed = NaN \/ forecast[k].wind.speed < 0
BadRain(k) == forecast[k].pop # NaN /\ forecast[k].pop > 1000
NoRain(k) == forecast[k].pop = NaN
BadTemp(k) == forecast[k].main.temp = NaN

C15_OutOfRangeIsDontSpray ==
  \A k \in Classified :
    (Daytime(k) /\ (BadWind(k) \/ BadRain(k) \/ NoRain(k) \/ BadTemp(k))) =>
      StoredBlock(k).status = "DONT_SPRAY"

(* C15 (amended): a daytime interval whose wind is NaN or below 0, whose   *)
(* rain probability is above 100%, or whose temperature is NaN is never    *)
(* PERFECT: it is RISKY or DONT_SPRAY, depending on the other quantities.  *)
(* An interval whose pop is missing or NaN is classified as the same       *)
(* interval with pop 0.                                                    *)

C15_OutOfRangeIsNotPerfect ==
  \A k \in Classified :
    /\ (Daytime(k) /\ (BadWind(k) \/ BadRain(k) \/ BadTemp(k))) =>
         StoredBlock(k).status \in {"RISKY", "DONT_SPRAY"}
    /\ NoRain(k) =>
         /\ StoredBlock(k).status = StatusWithPop(k, 0)
         /\ StoredBlock(k).rain = 0

\* a daytime interval of wind -1 m/s classified RISKY
C15_Witness ==
  \E k \in Classified :
    /\ Daytime(k)
    /\ forecast[k].wind.speed = -100
    /\ StoredBlock(k).status = "RISKY"

----------------------------------------------------------------------------
(* C16: invocations share no mutable state: whatever the interleaving of   *)
(* the steps of the invocations in progress, each returns what it returns  *)
(* when it runs alone on its forecast and spray type.                      *)

C16_CallsIndependent ==
  \A p \in DOMAIN calls :
    calls[p].pc = "done" =>
      Analysis(ResultOf(p)) =
        AnalyzeSprayConditions(calls[p].forecast, calls[p].sprayType, tz)

\* invocation 1 has returned windows while invocation 2, of another
\* forecast and spray type, is in the middle of its merge pass
C16_Witness ==
  /\ calls # <<>>
  /\ calls[1].pc = "done"
  /\ calls[1].windows # <<>>
  /\ calls[2].pc = "merge"
  /\ calls[2].windows # <<>>
  /\ calls[2].forecast # calls[1].forecast
  /\ calls[2].sprayType # calls[1].sprayType

----------------------------------------------------------------------------
(* C17: for a forecast sorted by ascending timestamp, the timeline's days  *)
(* are in the order in which their first interval appears in the forecast, *)
(* no local calendar date has two days, every block of a day has the       *)
(* day's local calendar date, and the blocks of a day are in               *)
(* non-decreasing timestamp order.                                         *)

Sorted == \A k \in 1..(Len(forecast) - 1) : forecast[k].dt <= forecast[k + 1].dt

\* the local calendar date of the j-th block of the n-th day
DateOfBlock(n, j) == LocalDayNumber(timeline[n].blocks[j].dt, tz)

\* the first interval of the forecast that has the date of the n-th day
FirstOfDay(n) ==
  CHOOSE k \in 1..Len(forecast) :
    /\ LocalDate(k) = DateOfBlock(n, 1)
    /\ \A j \in 1..(k - 1) : LocalDate(j) # DateOfBlock(n, 1)

C17_DaysInOrder ==
  (pc # "classify" /\ Sorted) =>
    /\ \A n, m \in 1..Len(timeline) :
         n < m => /\ FirstOfDay(n) < FirstOfDay(m)
                  /\ \A j \in 1..Len(timeline[n].blocks), l \in 1..Len(timeline[m].blocks) :
                       DateOfBlock(n, j) # DateOfBlock(m, l)
    /\ \A n \in 1..Len(timeline) :
         /\ \A j \in 1..Len(timeline[n].blocks) : DateOfBlock(n, j) = DateOfBlock(n, 1)
         /\ \A j \in 1..(Len(timeline[n].blocks) - 1) :
              timeline[n].blocks[j].dt <= timeline[n].blocks[j + 1].dt

\* a finished run on a sorted forecast of two dates, the first with two
\* intervals of different timestamps
C17_Witness ==
  /\ AllDone
  /\ Sorted
  /\ Len(timeline) = 2
  /\ Len(timeline[1].blocks) >= 2
  /\ timeline[1].blocks[1].dt < timeline[1].blocks[2].dt
  /\ DateOfBlock(1, 1) < DateOfBlock(2, 1)

----------------------------------------------------------------------------
(* C18: for every RISKY interval the reason names the first RISKY          *)
(* sub-condition that is true of it: "Wind approaching limit" iff the wind *)
(* is in (perfectMax, riskyMax]; otherwise "Light rain possible" iff the   *)
(* rain is in [5, 20] %; otherwise "Temperature not ideal".                *)

\* the reason the statement requires for the k-th interval under a built-in profile
FirstTrueRiskyReason(k) ==
  LET wind == Times(forecast[k].wind.speed, 2237)
      rain == IF forecast[k].pop = NaN THEN 0 ELSE forecast[k].pop * 100
      perfectMax == Mph(windLimits[sprayType].perfect)
      riskyMax == Mph(windLimits[sprayType].risky)
  IN IF Gt(wind, perfectMax) /\ Le(wind, riskyMax) THEN "Wind approaching limit"
     ELSE IF rain >= 5 * 1000 /\ rain <= 20 * 1000 THEN "Light rain possible"
     ELSE "Temperature not ideal"

C18_ReasonNamesTrueCondition ==
  \A k \in Classified :
    (sprayType \in BuiltInTypes /\ StoredBlock(k).status = "RISKY") =>
      StoredBlock(k).reason = FirstTrueRiskyReason(k)

----------------------------------------------------------------------------
(* C19: for every DONT_SPRAY interval under a built-in profile the reason  *)
(* is "High wind (Nmph)", N the rounded wind in mph, if wind > riskyMax;   *)
(* else "Rain forecast (N%)" if rain > 20 %; else "Too cold" if temp < 3;  *)
(* else "Too hot" if temp > 28; else "Unsuitable conditions", which is the *)
(* reason of a daytime interval of wind below 2 mph with ideal rain and    *)
(* temperature.                                                            *)

\* the reasons the statement gives the k-th interval; wind in 1e-5 mph, rain
\* in 1e-3 %, temp in centidegrees; N of the rain is a whole percentage
\* within half a percent of it
OrderedDontSprayReason(k) ==
  LET wind == Times(forecast[k].wind.speed, 2237)
      rain == IF forecast[k].pop = NaN THEN 0 ELSE forecast[k].pop * 100
      temp == forecast[k].main.temp
      riskyMax == windLimits[sprayType].risky
  IN IF wind # NaN /\ wind > riskyMax * 100000
       THEN {"High wind (" \o NumToString((wind + 50000) \div 100000) \o "mph)"}
     ELSE IF rain > 20 * 1000
       THEN {"Rain forecast (" \o NumToString(n) \o "%)" :
               n \in NearestPercents(forecast[k].pop)}
     ELSE IF temp # NaN /\ temp < 3 * 100 THEN {"Too cold"}
     ELSE IF temp # NaN /\ temp > 28 * 100 THEN {"Too hot"}
     ELSE {"Unsuitable conditions"}

\* daytime, wind in [0, 2) mph, rain below 5 %, temp in [5, 25]
CalmAndIdeal(k) ==
  /\ Daytime(k)
  /\ Measured(k)
  /\ forecast[k].wind.speed >= 0 /\ forecast[k].wind.speed * 2237 < 2 * 100000
  /\ forecast[k].pop # NaN /\ forecast[k].pop * 100 < 5 * 1000
  /\ forecast[k].main.temp >= 5 * 100 /\ forecast[k].main.temp <= 25 * 100

C19_DontSprayReasonOrder ==
  \A k \in Classified :
    sprayType \in BuiltInTypes =>
      /\ StoredBlock(k).status = "DONT_SPRAY" =>
           StoredBlock(k).reason \in OrderedDontSprayReason(k)
      /\ CalmAndIdeal(k) =>
           /\ StoredBlock(k).status = "DONT_SPRAY"
           /\ StoredBlock(k).reason = "Unsuitable conditions"

\* wind 18 mph above the herbicide riskyMax together with 30 % rain: the
\* reason is the wind's
C19_Witness ==
  \E k \in Classified :
    /\ sprayType = "herbicide"
    /\ forecast[k].wind.speed = 805
    /\ forecast[k].pop = 300
    /\ StoredBlock(k).status = "DONT_SPRAY"
    /\ StoredBlock(k).reason = "High wind (18mph)"

----------------------------------------------------------------------------
(* C20: wind direction does not influence classification or windows: a     *)
(* forecast that differs from the analysed one only in the wind direction  *)
(* of its intervals yields the same status and reason for every interval   *)
(* and the same recommendedWindows; the direction is only copied to the    *)
(* block's windDir.                                                        *)

\* the directions given to the intervals of the other forecast
OtherDegs == {0, 270}

\* the forecast with the direction of its k-th interval replaced by turn[k]
Turned(turn) ==
  [k \in 1..Len(forecast) |-> [forecast[k] EXCEPT !.wind.deg = turn[k]]]

C20_DirectionIgnored ==
  AllDone =>
    /\ \A k \in 1..Len(forecast) : StoredBlock(k).windDir = forecast[k].wind.deg
    /\ \A turn \in [1..Len(forecast) -> OtherDegs] :
         LET other == AnalyzeSprayConditions(Turned(turn), sprayType, tz) IN
           /\ other.recommendedWindows = windows
           /\ Len(other.timeline) = Len(timeline)
           /\ \A n \in 1..Len(timeline) :
                /\ other.timeline[n].day = timeline[n].day
                /\ other.timeline[n].date = timeline[n].date
                /\ Len(other.timeline[n].blocks) = Len(timeline[n].blocks)
                /\ \A j \in 1..Len(timeline[n].blocks) :
                     /\ other.timeline[n].blocks[j].status = timeline[n].blocks[j].status
                     /\ other.timeline[n].blocks[j].reason = timeline[n].blocks[j].reason
                     /\ other.timeline[n].blocks[j].windDir \in OtherDegs
                     /\ [other.timeline[n].blocks[j] EXCEPT !.windDir = 0]
                          = [timeline[n].blocks[j] EXCEPT !.windDir = 0]

\* a finished run with a window, whose intervals have two different
\* directions, neither among the directions of the other forecasts
C20_Witness ==
  /\ AllDone
  /\ windows # <<>>
  /\ Len(forecast) >= 2
  /\ forecast[1].wind.deg # forecast[2].wind.deg
  /\ \A k \in 1..Len(forecast) : forecast[k].wind.deg \notin OtherDegs
  /\ timeline[1].blocks[1].windDir = forecast[1].wind.deg

----------------------------------------------------------------------------
(* C21: findSprayWindows leaves the timeline unchanged: during and after   *)
(* the merge every day of the timeline holds the blocks the classifier     *)
(* stored, in the same order and with the same fields, and no returned     *)
(* window carries a member list.                                           *)

\* the timeline as the classifier built it
ClassifiedTimeline ==
  ObjectValues(ClassifyAll(forecast, Len(forecast), LimitsFor(sprayType), tz))

C21_TimelineKept ==
  pc \in {"merge", "done"} =>
    /\ timeline = ClassifiedTimeline
    /\ \A n \in 1..Len(windows) : "blocks" \notin DOMAIN windows[n]

\* a finished run that closed a window of two members of a day of at
\* least three blocks
C21_Witness ==
  /\ AllDone
  /\ \E n \in 1..Len(windows) :
       /\ Len(members[n]) = 2
       /\ Len(timeline[members[n][1][1]].blocks) >= 3

----------------------------------------------------------------------------
(* C22: windows are maximal runs: two intervals that are adjacent in a     *)
(* day's list and have the same status PERFECT or the same status RISKY    *)
(* belong to the same window.                                              *)

\* the windows that hold the block at pos
WindowsHolding(pos) == {n \in 1..Len(members) : pos \in Range(members[n])}

C22_MaximalRuns ==
  AllDone =>
    \A n \in 1..Len(timeline) :
      \A j \in 1..(Len(timeline[n].blocks) - 1) :
        (/\ timeline[n].blocks[j].status \in {"PERFECT", "RISKY"}
         /\ timeline[n].blocks[j + 1].status = timeline[n].blocks[j].status) =>
          /\ WindowsHolding(<<n, j>>) # {}
          /\ WindowsHolding(<<n, j>>) = WindowsHolding(<<n, j + 1>>)

\* a finished run on a day whose second and third block are both RISKY
\* after a PERFECT one
C22_Witness ==
  /\ AllDone
  /\ \E n \in 1..Len(timeline) :
       /\ Len(timeline[n].blocks) >= 3
       /\ timeline[n].blocks[1].status = "PERFECT"
       /\ timeline[n].blocks[2].status = "RISKY"
       /\ timeline[n].blocks[3].status = "RISKY"

----------------------------------------------------------------------------
(* C24: no interval that violates a hard limit is reported as sprayable: a *)
(* daytime interval with wind above riskyMax, or rain above 20 %, or       *)
(* temperature below 3 or above 28 is never PERFECT or RISKY and never a   *)
(* member of a window, whatever its other two quantities are.              *)

\* the k-th interval violates a hard limit of the built-in profile in use
OverHardLimit(k) ==
  \/ Gt(Times(forecast[k].wind.speed, 2237), windLimits[sprayType].risky * 100000)
  \/ (forecast[k].pop # NaN /\ forecast[k].pop * 100 > 20 * 1000)
  \/ Lt(forecast[k].main.temp, 3 * 100)
  \/ Gt(forecast[k].main.temp, 28 * 100)

C24_HardLimitNeverSprayable ==
  \A k \in Classified :
    (sprayType \in BuiltInTypes /\ Daytime(k) /\ OverHardLimit(k)) =>
      /\ StoredBlock(k).status \notin {"PERFECT", "RISKY"}
      /\ (pc # "classify" => <<BucketOf(k), RankOf(k)>> \notin WindowPositions)

----------------------------------------------------------------------------
(* C25: classification is monotone in the profile's wind tolerance: with   *)
(* the order DONT_SPRAY < RISKY < PERFECT, the status of every interval    *)
(* under fungicide is at least as good as under herbicide, and under       *)
(* insecticide at least as good as under fungicide.                        *)

\* the profiles more tolerant of wind than the one in use
MoreTolerant ==
  CASE sprayType = "herbicide" -> {"fungicide", "insecticide"}
    [] sprayType = "fungicide" -> {"insecticide"}
    [] OTHER -> {}

\* DONT_SPRAY < RISKY < PERFECT; NIGHT does not depend on the profile
Goodness(status) ==
  CASE status = "PERFECT" -> 2
    [] status = "RISKY" -> 1
    [] OTHER -> 0

C25_MonotoneInTolerance ==
  \A k \in Classified :
    \A type \in MoreTolerant :
      Goodness(StoredBlock(k).status)
        <= Goodness(Block(forecast[k], LimitsFor(type), tz).status)

----------------------------------------------------------------------------
(* C26 (as stated): every window of quality PERFECT has summaries inside   *)
(* the PERFECT limits of the profile used: 2 <= avgWind <= perfectMax,     *)
(* 5 <= avgTemp <= 25, and rainChance < 5.                                 *)

\* perfectMax of the profile used: a label without a profile of its own
\* that yields a PERFECT window was analysed with the herbicide profile
PerfectMaxUsed ==
  IF sprayType \in BuiltInTypes THEN windLimits[sprayType].perfect
  ELSE windLimits["herbicide"].perfect

\* avgWind (1e-5 mph) and avgTemp (centidegrees) of w are in the PERFECT bands
AveragesInPerfectBands(w) ==
  /\ w.avgWind.den > 0
  /\ 2 * 100000 * w.avgWind.den <= w.avgWind.num
  /\ w.avgWind.num <= PerfectMaxUsed * 100000 * w.avgWind.den
  /\ w.avgTemp.den > 0
  /\ 5 * 100 * w.avgTemp.den <= w.avgTemp.num
  /\ w.avgTemp.num <= 25 * 100 * w.avgTemp.den

C26_PerfectWindowBelow5 ==
  pc # "classify" =>
    \A n \in 1..Len(windows) :
      windows[n].quality = "PERFECT" =>
        /\ AveragesInPerfectBands(windows[n])
        /\ windows[n].rainChance < 5

(* C26 (amended): every window of quality PERFECT has 2 <= avgWind <=      *)
(* perfectMax, 5 <= avgTemp <= 25 and rainChance <= 5: rainChance is the   *)
(* largest rounded rain percentage of its members, each of which has an    *)
(* unrounded percentage below 5.                                           *)
C26_PerfectWindowAtMost5 ==
  pc # "classify" =>
    \A n \in 1..Len(windows) :
      windows[n].quality = "PERFECT" =>
        /\ AveragesInPerfectBands(windows[n])
        /\ windows[n].rainChance <= 5
        /\ \A k \in 1..Len(forecast) :
             <<BucketOf(k), RankOf(k)>> \in Range(members[n]) =>
               (forecast[k].pop = NaN \/ forecast[k].pop * 100 < 5 * 1000)

\* a PERFECT window of 4.6 % rain, reported with rainChance 5
C26_Witness ==
  /\ AllDone
  /\ \E n \in 1..Len(windows) :
       /\ windows[n].quality = "PERFECT"
       /\ windows[n].rainChance = 5
       /\ \E k \in 1..Len(forecast) : forecast[k].pop = 46

----------------------------------------------------------------------------
(* C27: for a forecast whose consecutive intervals are exactly 3 hours     *)
(* apart, every window has hour(endTime) - hour(startTime) =               *)
(* durationHours, 3 <= durationHours <= 15, startTime >= 06:00 and         *)
(* endTime <= 22:00: endTime does not wrap past midnight and is later than *)
(* startTime.                                                              *)

ThreeHoursApart ==
  \A k \in 1..(Len(forecast) - 1) : forecast[k + 1].dt = forecast[k].dt + 10800

\* the hour a time string "HH:00" names
HourNamed(str) == CHOOSE h \in 0..23 : TimeStr(h) = str

C27_WindowHours ==
  (pc # "classify" /\ ThreeHoursApart) =>
    \A n \in 1..Len(windows) :
      LET w == windows[n] IN
        /\ \E h \in 0..23 : TimeStr(h) = w.startTime
        /\ \E h \in 0..23 : TimeStr(h) = w.endTime
        /\ HourNamed(w.endTime) - HourNamed(w.startTime) = w.durationHours
        /\ 3 <= w.durationHours /\ w.durationHours <= 15
        /\ HourNamed(w.startTime) >= 6
        /\ HourNamed(w.endTime) <= 22
        /\ HourNamed(w.endTime) > HourNamed(w.startTime)

\* a finished run on a 3-hour series with a window of five intervals from
\* 07:00 to 22:00
C27_Witness ==
  /\ AllDone
  /\ ThreeHoursApart
  /\ Len(forecast) >= 5
  /\ \E n \in 1..Len(windows) :
       /\ windows[n].startTime = "07:00"
       /\ windows[n].endTime = "22:00"
       /\ windows[n].durationHours = 15

----------------------------------------------------------------------------
(* C29: for every day of the timeline, the ISO `date` field denotes the    *)
(* same calendar day as the local calendar date that keys the bucket and   *)
(* as the weekday label `day`, for every time zone offset of the server.   *)

\* the ISO date of local calendar day n (epoch day n, January 1970)
IsoOfLocalDay(n) == "1970-01-" \o PadStart2(NumToString(n + 1))

C29_DateIsLocalDate ==
  \A n \in 1..Len(dayMap) :
    LET first == dayMap[n].blocks[1] IN
      /\ dayMap[n].day = WeekdayLong(LocalDayNumber(first.dt, tz))
      /\ dayMap[n].date = IsoOfLocalDay(LocalDayNumber(first.dt, tz))

----------------------------------------------------------------------------
(* C23: when the user selects a new weather location in the Dashboard      *)
(* while the spray tab is shown, SprayWindowOptimizer eventually issues a  *)
(* new /api/spray-analysis request, and that request is for the newly     *)
(* selected location.                                                      *)

\* the user has selected l with the spray tab shown, and it is still shown
SelectedInSprayTab(l) ==
  /\ ui.activeTab = "spray"
  /\ ui.selectedInSpray
  /\ ui.savedLocation = l

\* a request issued after the selection names l
RequestedAfterSelect(l) ==
  \E r \in ui.issued : r.id > ui.selectedAt /\ UrlLocation(r.url) = l

C23_SelectRefetches ==
  \A l \in Locations : SelectedInSprayTab(l) ~> RequestedAfterSelect(l)

----------------------------------------------------------------------------
(* C28 (as stated): in SprayWindowOptimizer, when the user changes the     *)
(* spray type while an earlier analysis request is still in flight, then   *)
(* under every order of arrival of the responses, once all requests have   *)
(* completed the displayed analysis is the one requested for the selected  *)
(* spray type, and loading is true whenever a request is still in flight.  *)

C28_LoadingWhileInFlight ==
  (ui # <<>> /\ ui.activeTab = "spray") =>
    /\ (ui.inFlight # {}) => ui.loading
    /\ (ui.inFlight = {} /\ ui.error = "") =>
         /\ ui.analysis # Null
         /\ ui.analysis.type = ui.sprayType

(* C28 (amended): a mounted SprayWindowOptimizer has at most one request   *)
(* of its own in flight (the spray type buttons are not rendered while     *)
(* loading), loading is true exactly while it has one, and whenever it has *)
(* none and shows no error the displayed analysis is the one requested for *)
(* the selected spray type, whatever the order of arrival; the only        *)
(* earlier request that can be in flight when the spray type changes is    *)
(* one of an earlier mount, whose response is discarded.                   *)

OwnInFlight == {r \in ui.inFlight : r.instance = ui.instance}

C28_DisplayedMatchesSelected ==
  (ui # <<>> /\ ui.activeTab = "spray") =>
    /\ Cardinality(OwnInFlight) <= 1
    /\ ui.loading <=> (OwnInFlight # {})
    /\ (~ui.loading /\ ui.error = "") =>
         /\ ui.analysis # Null
         /\ ui.analysis.type = ui.sprayType
    /\ \A r \in ui.inFlight \ OwnInFlight : r.instance < ui.instance

\* the request of the first mount is still in flight after the user, in
\* the second mount, changed the spray type to fungicide and the fungicide
\* analysis arrived and is displayed
C28_Witness ==
  /\ ui # <<>>
  /\ ui.activeTab = "spray"
  /\ ui.instance = 2
  /\ ui.sprayType = "fungicide"
  /\ ~ui.loading
  /\ ui.error = ""
  /\ ui.analysis # Null
  /\ ui.analysis.type = "fungicide"
  /\ \E r \in ui.inFlight : r.instance = 1 /\ r.url.type = "herbicide"

----------------------------------------------------------------------------
(* C30: every request to GET /api/spray-analysis gets exactly one response *)
(* on every path: 401 without any lookup or analysis when the session has  *)
(* no userId, 500 when the weather API key is missing, 400 when no         *)
(* coordinates are given and the farm location is unset or cannot be       *)
(* geocoded, 500 when the forecast payload has no interval list or a step  *)
(* throws, and otherwise the analysis; a failed request never returns a    *)
(* partial analysis.                                                       *)

\* the status the statement gives the request
StatusDue ==
  IF ~req.userId THEN 401
  ELSE IF ~req.apiKey THEN 500
  ELSE IF req.coords # "both" /\ req.db \in {"no row", "no location"} THEN 400
  ELSE IF req.coords # "both" /\ req.db = "throws" THEN 500
  ELSE IF req.coords # "both" /\ req.geoFetch = "throws" THEN 500
  ELSE IF req.coords # "both" /\ req.geo = "empty" THEN 400
  ELSE IF req.coords # "both" /\ req.geo \in {Unparsable, "error object"} THEN 500
  ELSE IF req.forecastFetch = "throws" THEN 500
  ELSE IF req.payload \in {Unparsable, "no list", "bad interval"} THEN 500
  ELSE 200

C30_OneResponse ==
  req # <<>> =>
    /\ Len(req.responses) <= 1
    /\ (req.pc = "end") <=> (Len(req.responses) = 1)
    /\ ~req.userId => (req.lookups = 0 /\ ~req.analysed)
    /\ req.pc = "end" =>
         LET response == req.responses[1] IN
           /\ response.status = StatusDue
           /\ response.status = 200 =>
                /\ req.analysed
                /\ response.body = AnalyzeSprayConditions(PayloadList(req.payload), req.type, tz)
           /\ response.status # 200 =>
                /\ DOMAIN response.body = {"message"}
                /\ ~req.analysed

\* a request without coordinates went through the profile lookup and the
\* geocoding and was answered 500 for a forecast whose second interval has
\* no wind
C30_Witness ==
  /\ req # <<>>
  /\ req.pc = "end"
  /\ req.coords = "none"
  /\ req.lookups = 3
  /\ req.payload = "bad interval"
  /\ Len(req.responses) = 1
  /\ req.responses[1].status = 500

\* the steps compute what the functions compute
StepsAgree == AllDone => Result = AnalyzeSprayConditions(forecast, sprayType, tz)

====
